---- MODULE Spec2Model ----
(***************************************************************************)
(* A model of the website crawler of the Occams chatbot back end           *)
(* (BackEnd/app/core/scrapping_utils.py, class OccamsWebScraper).          *)
(*                                                                         *)
(* Text (URLs, hrefs, page text) is a sequence of one-character strings,   *)
(* so that parsing, prefix tests, stripping and cleaning are computed the  *)
(* way the Python code computes them.  One crawl session is one behaviour: *)
(* the site (the anchors each document carries) is fixed in Init, the      *)
(* outcome of every page.goto is chosen when the goto is issued.           *)
(*                                                                         *)
(* Specifications:                                                         *)
(*   Spec         a crawl session on a small site                          *)
(*   SpecWide     a crawl session on a site with a wide /team section      *)
(*   SpecHelpers  one helper of the scraper applied to one argument        *)
(*   SpecRag      calls of get_rag_chain (BackEnd/app/core/rag_chain.py)   *)
(*   SpecChain    one operation of the RAG chain or of the chat endpoint   *)
(*   SpecSweep    crawl sessions, and the sweep's cut applied to a list    *)
(***************************************************************************)
EXTENDS Integers, Sequences, FiniteSets, TLC

(***************************************************************************)
(* Bounds of the model.                                                    *)
(***************************************************************************)
\* The configured page ceiling is drawn from 1..MaxBudget.
MaxBudget == 3
\* At most MaxFaults page navigations of one session fail (non-200 or raise).
MaxFaults == 2

(***************************************************************************)
(* Text helpers: Python str operations on sequences of characters.         *)
(***************************************************************************)
UpperChars == <<"A","B","C","D","E","F","G","H","I","J","K","L","M",
                "N","O","P","Q","R","S","T","U","V","W","X","Y","Z">>
LowerChars == <<"a","b","c","d","e","f","g","h","i","j","k","l","m",
                "n","o","p","q","r","s","t","u","v","w","x","y","z">>

\* the upper-case letters beyond ASCII among the characters a string of this
\* module can hold (code points up to 255): U+00C0 to U+00DE without the
\* multiplication sign, and their lower-case letters
UpperLatin1 == <<"À","Á","Â","Ã","Ä","Å","Æ","Ç","È","É","Ê","Ë","Ì","Í","Î",
                 "Ï","Ð","Ñ","Ò","Ó","Ô","Õ","Ö","Ø","Ù","Ú","Û","Ü","Ý","Þ">>
LowerLatin1 == <<"à","á","â","ã","ä","å","æ","ç","è","é","ê","ë","ì","í","î",
                 "ï","ð","ñ","ò","ó","ô","õ","ö","ø","ù","ú","û","ü","ý","þ">>

\* the lower-case letter of each upper-case letter
LowerOf ==
    [c \in {(UpperChars \o UpperLatin1)[i] : i \in 1..Len(UpperChars \o UpperLatin1)} |->
        (LowerChars \o LowerLatin1)[CHOOSE i \in 1..Len(UpperChars \o UpperLatin1) :
                                        (UpperChars \o UpperLatin1)[i] = c]]

\* str.lower() on one character
LowerChar(c) == IF c \in DOMAIN LowerOf THEN LowerOf[c] ELSE c

\* str.lower()
Lower(s) == [i \in 1..Len(s) |-> LowerChar(s[i])]

\* the characters str.strip() removes, among the characters a string of this
\* module can hold (code points up to 255): tab, line feed, vertical tab,
\* form feed, carriage return, the separators 28 to 31, space, next line
\* (133) and no-break space (160)
Whitespace ==
    {" ", "\t", "\n", "\r", "\f", "", "", "", "", "", "", " "}

\* s.startswith(p)
StartsWith(s, p) == Len(p) <= Len(s) /\ SubSeq(s, 1, Len(p)) = p

\* s.endswith(p)
EndsWith(s, p) == Len(p) <= Len(s) /\ SubSeq(s, Len(s) - Len(p) + 1, Len(s)) = p

\* sub in s
Contains(s, sub) ==
    \E i \in 1..(Len(s) - Len(sub) + 1) : SubSeq(s, i, i + Len(sub) - 1) = sub

\* s.strip(chars)
StripChars(s, chars) ==
    LET keep == {i \in 1..Len(s) : s[i] \notin chars}
    IN  IF keep = {} THEN <<>>
        ELSE SubSeq(s, CHOOSE i \in keep : \A j \in keep : i <= j,
                       CHOOSE i \in keep : \A j \in keep : i >= j)

\* s.strip()
Strip(s) == StripChars(s, Whitespace)

\* index of the first character of s that is in chars, Len(s)+1 when none
FirstOf(s, chars) ==
    LET hit == {i \in 1..Len(s) : s[i] \in chars}
    IN  IF hit = {} THEN Len(s) + 1 ELSE CHOOSE i \in hit : \A j \in hit : i <= j

\* s.split('\n')
RECURSIVE SplitLines(_)
SplitLines(s) ==
    LET k == FirstOf(s, {"\n"})
    IN  IF k > Len(s) THEN <<s>>
        ELSE <<SubSeq(s, 1, k - 1)>> \o SplitLines(SubSeq(s, k + 1, Len(s)))

\* '\n'.join(lines)
RECURSIVE JoinLines(_)
JoinLines(lines) ==
    IF lines = <<>> THEN <<>>
    ELSE IF Len(lines) = 1 THEN lines[1]
    ELSE lines[1] \o <<"\n">> \o JoinLines(Tail(lines))

\* mutant of DictFromKeys: the last occurrence of each element is kept
DictFromKeys_KeepLast(seq) ==
    LET IsLast(i) == \A j \in (i + 1)..Len(seq) : seq[j] # seq[i]
        lasts == SelectSeq([i \in 1..Len(seq) |-> i], IsLast)
    IN  [k \in 1..Len(lasts) |-> seq[lasts[k]]]

\* list(dict.fromkeys(seq)): first occurrences, in order
DictFromKeys(seq) ==
    LET IsFirst(i) == \A j \in 1..(i - 1) : seq[j] # seq[i]
        firsts == SelectSeq([i \in 1..Len(seq) |-> i], IsFirst)
    IN  [k \in 1..Len(firsts) |-> seq[firsts[k]]]

\* the elements of a sequence
Range(seq) == {seq[i] : i \in 1..Len(seq)}

\* sum(seqs, [])
RECURSIVE Flatten(_)
Flatten(seqs) == IF seqs = <<>> THEN <<>> ELSE Head(seqs) \o Flatten(Tail(seqs))

(***************************************************************************)
(* URLs: urllib.parse.urlparse, urlunparse and urljoin as CPython 3.11     *)
(* computes them, for URLs without "[" or "]" in the netloc (those raise   *)
(* ValueError) and without the character U+0000.                           *)
(***************************************************************************)
Letters == Range(LowerChars) \cup Range(UpperChars)

\* scheme_chars of urllib.parse: letters, digits, "+", "-" and "."
scheme_chars ==
    Letters \cup {"0","1","2","3","4","5","6","7","8","9","+","-","."}

\* uses_relative of urllib.parse
uses_relative ==
    { <<>>, <<"f","t","p">>, <<"h","t","t","p">>,
      <<"g","o","p","h","e","r">>, <<"n","n","t","p">>,
      <<"i","m","a","p">>, <<"w","a","i","s">>, <<"f","i","l","e">>,
      <<"h","t","t","p","s">>, <<"s","h","t","t","p">>, <<"m","m","s">>,
      <<"p","r","o","s","p","e","r","o">>, <<"r","t","s","p">>,
      <<"r","t","s","p","s">>, <<"r","t","s","p","u">>,
      <<"s","f","t","p">>, <<"s","v","n">>,
      <<"s","v","n","+","s","s","h">>, <<"w","s">>, <<"w","s","s">> }

\* uses_netloc of urllib.parse
uses_netloc ==
    { <<>>, <<"f","t","p">>, <<"h","t","t","p">>,
      <<"g","o","p","h","e","r">>, <<"n","n","t","p">>,
      <<"t","e","l","n","e","t">>, <<"i","m","a","p">>,
      <<"w","a","i","s">>, <<"f","i","l","e">>, <<"m","m","s">>,
      <<"h","t","t","p","s">>, <<"s","h","t","t","p">>,
      <<"s","n","e","w","s">>, <<"p","r","o","s","p","e","r","o">>,
      <<"r","t","s","p">>, <<"r","t","s","p","s">>,
      <<"r","t","s","p","u">>, <<"r","s","y","n","c">>, <<"s","v","n">>,
      <<"s","v","n","+","s","s","h">>, <<"s","f","t","p">>,
      <<"n","f","s">>, <<"g","i","t">>, <<"g","i","t","+","s","s","h">>,
      <<"w","s">>, <<"w","s","s">> }

\* uses_params of urllib.parse
uses_params ==
    { <<>>, <<"f","t","p">>, <<"h","d","l">>,
      <<"p","r","o","s","p","e","r","o">>, <<"h","t","t","p">>,
      <<"i","m","a","p">>, <<"h","t","t","p","s">>,
      <<"s","h","t","t","p">>, <<"r","t","s","p">>,
      <<"r","t","s","p","s">>, <<"r","t","s","p","u">>, <<"s","i","p">>,
      <<"s","i","p","s">>, <<"m","m","s">>, <<"s","f","t","p">>,
      <<"t","e","l">> }

\* the part of s before index k, and the part after it
Before(s, k) == SubSeq(s, 1, k - 1)
After(s, k) == SubSeq(s, k + 1, Len(s))

\* urlsplit, first step: url.lstrip(_WHATWG_C0_CONTROL_OR_SPACE), then every
\* tab, CR and LF removed
Sanitized(url) ==
    LET C0_CONTROL_OR_SPACE ==
        { "", "", "", "", "", "", "", "", "\t", "\n", "",
      "\f", "\r", "", "", "", "", "", "", "", "", "",
      "", "", "", "", "", "", "", "", "", " " }
        kept == {i \in 1..Len(url) : url[i] \notin C0_CONTROL_OR_SPACE}
        first == IF kept = {} THEN Len(url) + 1
                 ELSE CHOOSE i \in kept : \A j \in kept : i <= j
    IN  SelectSeq(SubSeq(url, first, Len(url)),
                  LAMBDA c : c \notin {"\t", "\r", "\n"})

\* the index of the last "/" of a path, 0 when it has none
LastSlash(path) ==
    LET slashes == {i \in 1..Len(path) : path[i] = "/"}
    IN  IF slashes = {} THEN 0 ELSE CHOOSE i \in slashes : \A j \in slashes : i >= j

\* _splitparams: the index of the first ";" of the last segment of the path,
\* Len(path)+1 when it has none
SplitParamsAt(path) ==
    LastSlash(path) + FirstOf(After(path, LastSlash(path)), {";"})

\* urlparse, last step: for a scheme of uses_params the params are what
\* follows the ";" of the last path segment
ParseParamsAt(scheme, netloc, path, query, fragment, semi) ==
    [scheme |-> scheme, netloc |-> netloc,
     path |-> IF scheme \in uses_params THEN Before(path, semi) ELSE path,
     params |-> IF scheme \in uses_params THEN After(path, semi) ELSE <<>>,
     query |-> query, fragment |-> fragment]

\* urlsplit: the query is what follows the first "?" of the rest
ParseQueryAt(scheme, netloc, rest, fragment, qmark) ==
    ParseParamsAt(scheme, netloc, Before(rest, qmark), After(rest, qmark),
                  fragment, SplitParamsAt(Before(rest, qmark)))

\* urlsplit: the fragment is what follows the first "#"
ParseFragmentAt(scheme, netloc, rest, hash) ==
    ParseQueryAt(scheme, netloc, Before(rest, hash), After(rest, hash),
                 FirstOf(Before(rest, hash), {"?"}))

\* urlsplit: path, query and fragment of what follows the netloc
ParsePath(scheme, netloc, rest) ==
    ParseFragmentAt(scheme, netloc, rest, FirstOf(rest, {"#"}))

\* urlsplit: the netloc runs to the first "/", "?" or "#" after the "//"
ParseNetlocAt(scheme, after, nEnd) ==
    ParsePath(scheme, Before(after, nEnd), SubSeq(after, nEnd, Len(after)))

\* urlsplit: what follows the scheme
ParseAfterScheme(scheme, rest) ==
    IF StartsWith(rest, <<"/","/">>)
    THEN ParseNetlocAt(scheme, SubSeq(rest, 3, Len(rest)),
                       FirstOf(SubSeq(rest, 3, Len(rest)), {"/", "?", "#"}))
    ELSE ParsePath(scheme, <<>>, rest)

\* urlsplit: a scheme is a letter followed by scheme_chars up to the first
\* ":", lower-cased; without one the default scheme stands
ParseSchemeAt(url, scheme, colon) ==
    IF /\ colon > 1
       /\ colon <= Len(url)
       /\ url[1] \in Letters
       /\ \A i \in 1..(colon - 1) : url[i] \in scheme_chars
    THEN ParseAfterScheme(Lower(Before(url, colon)), After(url, colon))
    ELSE ParseAfterScheme(scheme, url)

\* urlparse(url, scheme): the scheme, netloc, path, params, query and
\* fragment of url
urlparse(url, scheme) ==
    ParseSchemeAt(Sanitized(url), scheme, FirstOf(Sanitized(url), {":"}))

\* urlunsplit((scheme, netloc, url, query, fragment)): an empty part leaves
\* no delimiter
urlunsplit(scheme, netloc, url, query, fragment) ==
    (IF scheme # <<>> THEN scheme \o <<":">> ELSE <<>>)
    \o (IF \/ netloc # <<>>
           \/ (scheme # <<>> /\ scheme \in uses_netloc
               /\ ~ StartsWith(url, <<"/","/">>))
        THEN <<"/","/">> \o netloc
             \o (IF url # <<>> /\ url[1] # "/" THEN <<"/">> ELSE <<>>) \o url
        ELSE url)
    \o (IF query # <<>> THEN <<"?">> \o query ELSE <<>>)
    \o (IF fragment # <<>> THEN <<"#">> \o fragment ELSE <<>>)

\* urlunparse(p)
urlunparse(p) ==
    urlunsplit(p.scheme, p.netloc,
               IF p.params # <<>> THEN p.path \o <<";">> \o p.params ELSE p.path,
               p.query, p.fragment)

\* s.split(c)
RECURSIVE SplitOn(_, _)
SplitOn(s, c) ==
    IF FirstOf(s, {c}) > Len(s) THEN <<s>>
    ELSE <<Before(s, FirstOf(s, {c}))>> \o SplitOn(After(s, FirstOf(s, {c})), c)

\* c.join(parts)
RECURSIVE JoinWith(_, _)
JoinWith(parts, c) ==
    IF parts = <<>> THEN <<>>
    ELSE IF Len(parts) = 1 THEN parts[1]
    ELSE parts[1] \o <<c>> \o JoinWith(Tail(parts), c)

\* urljoin: the segments to resolve; for a relative path those of the base
\* path without its last one, then the path's, the empty ones dropped from
\* the middle
Segments(bpath, path) ==
    LET parts == SplitOn(bpath, "/")
        base_parts == IF parts[Len(parts)] # <<>>
                      THEN SubSeq(parts, 1, Len(parts) - 1) ELSE parts
        joined == base_parts \o SplitOn(path, "/")
    IN  IF path # <<>> /\ path[1] = "/" THEN SplitOn(path, "/")
        ELSE IF Len(joined) <= 2 THEN joined
        ELSE <<joined[1]>>
             \o SelectSeq(SubSeq(joined, 2, Len(joined) - 1),
                          LAMBDA seg : seg # <<>>)
             \o <<joined[Len(joined)]>>

\* urljoin: ".." drops the last resolved segment, "." is skipped
RECURSIVE ResolveDots(_, _)
ResolveDots(segments, resolved_path) ==
    IF segments = <<>> THEN resolved_path
    ELSE ResolveDots(Tail(segments),
             IF Head(segments) = <<".",".">>
             THEN SubSeq(resolved_path, 1, Len(resolved_path) - 1)
             ELSE IF Head(segments) = <<".">> THEN resolved_path
             ELSE Append(resolved_path, Head(segments)))

\* urljoin: the resolved path, "/" when it is empty
ResolvedPath(segments) ==
    LET resolved_path ==
            ResolveDots(segments, <<>>)
            \o (IF segments[Len(segments)] \in {<<".">>, <<".",".">>}
                THEN << <<>> >> ELSE <<>>)
    IN  IF JoinWith(resolved_path, "/") = <<>> THEN <<"/">>
        ELSE JoinWith(resolved_path, "/")

\* urljoin, after the netloc is settled: a url without path and params takes
\* the base's (and its query, when it has none)
JoinPath(b, h, netloc) ==
    IF h.path = <<>> /\ h.params = <<>>
    THEN urlunparse([scheme |-> h.scheme, netloc |-> netloc, path |-> b.path,
                     params |-> b.params,
                     query |-> IF h.query = <<>> THEN b.query ELSE h.query,
                     fragment |-> h.fragment])
    ELSE urlunparse([scheme |-> h.scheme, netloc |-> netloc,
                     path |-> ResolvedPath(Segments(b.path, h.path)),
                     params |-> h.params, query |-> h.query,
                     fragment |-> h.fragment])

\* urljoin on the parsed base b and the parsed url h: a url of another
\* scheme, or of a scheme outside uses_relative, is returned as written
JoinParsed(url, b, h) ==
    IF h.scheme # b.scheme \/ h.scheme \notin uses_relative THEN url
    ELSE IF h.scheme \in uses_netloc /\ h.netloc # <<>> THEN urlunparse(h)
    ELSE JoinPath(b, h, IF h.scheme \in uses_netloc THEN b.netloc ELSE h.netloc)

\* urljoin(base, url)
urljoin(base, url) ==
    IF base = <<>> THEN url
    ELSE IF url = <<>> THEN base
    ELSE JoinParsed(url, urlparse(base, <<>>),
                    urlparse(url, urlparse(base, <<>>).scheme))

(***************************************************************************)
(* Configuration (BackEnd/app/config.py).                                  *)
(***************************************************************************)
\* TARGET_WEBSITE_URL, the base URL of the session: "https://x.io"
TARGET_WEBSITE_URL == <<"h","t","t","p","s",":","/","/","x",".","i","o">>

\* self.base_url and self.domain, set by __init__
base_url == TARGET_WEBSITE_URL
domain == urlparse(base_url, <<>>).netloc

(***************************************************************************)
(* URL classifier.                                                         *)
(***************************************************************************)
\* unwanted_extensions of _is_valid_url
unwanted_extensions ==
    { <<".","p","d","f">>, <<".","j","p","g">>, <<".","j","p","e","g">>,
      <<".","p","n","g">>, <<".","g","i","f">>, <<".","c","s","s">>,
      <<".","j","s">>, <<".","i","c","o">>, <<".","x","m","l">>,
      <<".","z","i","p">> }

\* unwanted_patterns of _is_valid_url
unwanted_patterns ==
    { <<"#">>, <<"m","a","i","l","t","o",":">>, <<"t","e","l",":">>,
      <<"j","a","v","a","s","c","r","i","p","t",":">>,
      <<"l","o","g","i","n">>, <<"a","d","m","i","n">>,
      <<"w","p","-","a","d","m","i","n">> }

\* _is_valid_url(url)
_is_valid_url(url) ==
    LET lowered == Lower(url)
    IN  /\ urlparse(url, <<>>).netloc = domain
        /\ ~ \E ext \in unwanted_extensions : EndsWith(lowered, ext)
        /\ ~ \E pattern \in unwanted_patterns : Contains(lowered, pattern)

\* main_sections of _is_main_section
main_sections ==
    { <<"a","b","o","u","t">>, <<"s","e","r","v","i","c","e","s">>,
      <<"t","e","a","m">>, <<"r","e","s","o","u","r","c","e","s">>,
      <<"c","o","n","t","a","c","t">>, <<"p","o","r","t","f","o","l","i","o">>,
      <<"b","l","o","g">>, <<"n","e","w","s">>,
      <<"c","a","r","e","e","r","s">>, <<"c","l","i","e","n","t","s">> }

\* _is_main_section(href)
_is_main_section(href) ==
    LET href_lower == Lower(href)
    IN  \E section \in main_sections : Contains(href_lower, section)

\* mutant of _is_likely_subsection: the paths may be equal
_is_likely_subsection_NotStrict(parent_url, child_url) ==
    LET parent_path == StripChars(urlparse(parent_url, <<>>).path, {"/"})
        child_path  == StripChars(urlparse(child_url, <<>>).path, {"/"})
    IN  StartsWith(child_path, parent_path)

\* _is_likely_subsection(parent_url, child_url)
_is_likely_subsection(parent_url, child_url) ==
    LET parent_path == StripChars(urlparse(parent_url, <<>>).path, {"/"})
        child_path  == StripChars(urlparse(child_url, <<>>).path, {"/"})
    IN  StartsWith(child_path, parent_path) /\ child_path # parent_path

(***************************************************************************)
(* Text cleaning.                                                          *)
(***************************************************************************)
\* the navigation tokens _clean_text drops
nav_tokens == { <<"h","o","m","e">>, <<"m","e","n","u">>, <<"s","k","i","p">> }

\* mutant of KeepLine: the length test is len(line) >= 3
KeepLine_Len3(line) == line # <<>> /\ Len(line) >= 3 /\ Lower(line) \notin nav_tokens

\* the line test of _clean_text, on a stripped line
KeepLine(line) == line # <<>> /\ Len(line) > 3 /\ Lower(line) \notin nav_tokens

\* line.strip() for each line
StripLines(lines) == [i \in 1..Len(lines) |-> Strip(lines[i])]

\* text.replace('\n\n\n', '\n\n'): left to right, without overlap
RECURSIVE ReplaceTriple(_)
ReplaceTriple(s) ==
    IF Len(s) < 3 THEN s
    ELSE IF SubSeq(s, 1, 3) = <<"\n","\n","\n">>
         THEN <<"\n","\n">> \o ReplaceTriple(SubSeq(s, 4, Len(s)))
         ELSE <<s[1]>> \o ReplaceTriple(Tail(s))

\* while '\n\n\n' in text: text = text.replace('\n\n\n', '\n\n')
RECURSIVE CollapseNewlines(_)
CollapseNewlines(s) ==
    IF Contains(s, <<"\n","\n","\n">>) THEN CollapseNewlines(ReplaceTriple(s)) ELSE s

\* _clean_text(text)
_clean_text(text) ==
    IF text = <<>> THEN <<>>
    ELSE Strip(CollapseNewlines(JoinLines(
             SelectSeq(StripLines(SplitLines(text)), KeepLine))))

(***************************************************************************)
(* The site: the documents of the model and the anchors they carry.        *)
(* An anchor is its href attribute, the set of navigation selectors        *)
(* (indices into nav_selectors) its element matches, and its link text.    *)
(***************************************************************************)
\* "https://x.io/team", "https://x.io/team/a", "https://x.io/blog"
U_team   == base_url \o <<"/","t","e","a","m">>
U_team_a == base_url \o <<"/","t","e","a","m","/","a">>
U_blog   == base_url \o <<"/","b","l","o","g">>

\* the anchors: root-relative hrefs, a relative one with an empty query
\* ("team/a?"), an absolute one with an upper-case scheme, and a fragment-only
\* one ("#"), which urljoin resolves to the base URL
A_team   == [href |-> <<"/","t","e","a","m">>, sels |-> {1}, text |-> <<"T","e","a","m">>]
A_team_a == [href |-> <<"t","e","a","m","/","a","?">>, sels |-> {}, text |-> <<"A","n","n">>]
A_blog   == [href |-> <<"/","b","l","o","g">>, sels |-> {1, 6}, text |-> <<" ","B","l","o","g"," ">>]
A_css    == [href |-> <<"/","a",".","c","s","s">>, sels |-> {1}, text |-> <<"T","e","a","m">>]
A_ext    == [href |-> <<"H","T","T","P","S",":","/","/","y",".","i","o","/","t","e","a","m">>,
             sels |-> {6}, text |-> <<"T","e","a","m">>]
A_home   == [href |-> <<"#">>, sels |-> {}, text |-> <<"A","b","o","u","t"," ","u","s">>]

\* the documents a session can load
Pages == {base_url, U_team, U_team_a, U_blog}

\* the anchor lists each document may carry, in DOM order
PageChoices(u) ==
    IF u = base_url THEN { <<A_team, A_css, A_blog, A_ext>>, <<A_home, A_team, A_team_a>> }
    ELSE IF u = U_team THEN { <<A_team_a, A_blog>>, <<A_home>> }
    ELSE IF u = U_team_a THEN { <<A_team>> }
    ELSE { <<A_team_a>> }

\* the sites of the model
Sites == {s \in [Pages -> UNION {PageChoices(u) : u \in Pages}] :
             \A u \in Pages : s[u] \in PageChoices(u)}

\* rendered page text: one with content, one that cleaning empties
GoodText   == <<"H","o","m","e","\n","O","u","r"," ","t","e","a","m","\n">>
BoilerText == <<" ","M","e","n","u","\n","a","b","c","\n">>

\* anchors of a /team page that carries more subsection links than a section
\* takes: links to /team/b ... /team/g, and a stylesheet under /team
TeamAnchor(c) ==
    [href |-> <<"/","t","e","a","m","/",c>>, sels |-> {}, text |-> <<"M","r"," ",c>>]
A_team_css == [href |-> <<"/","t","e","a","m","/","a",".","c","s","s">>, sels |-> {},
               text |-> <<"S","t","y","l","e">>]

\* the /team pages of the wide sites: seven subsection links; or six, with a
\* repeated one, a stylesheet and a link to another section among them
WideTeamChoices ==
    { <<A_team_a, TeamAnchor("b"), TeamAnchor("c"), TeamAnchor("d"),
        TeamAnchor("e"), TeamAnchor("f"), TeamAnchor("g")>>,
      <<A_blog, A_team_a, A_team_css, TeamAnchor("b"), A_team_a, TeamAnchor("c"),
        TeamAnchor("d"), TeamAnchor("e"), TeamAnchor("f")>> }

\* the home pages of the wide sites: links to /team and /blog, and possibly
\* an "About us" link to the page itself
WideHomeChoices == { <<A_team, A_blog>>, <<A_team, A_blog, A_home>> }

\* the wide sites: a home page and the /team page
WideSites ==
    {[u \in {base_url, U_team} |-> IF u = base_url THEN h ELSE t] :
        h \in WideHomeChoices, t \in WideTeamChoices}

\* the number of posts the home page of the long site links to: more than
\* the sweep takes
MaxPosts == 11

\* the URLs of posts, "https://x.io/p/a", ..., and the anchors to them
PostNames == <<"a","b","c","d","e","f","g","h","i","j","k","l","m","n">>
PostUrl(k) == base_url \o <<"/","p","/",PostNames[k]>>
PostAnchor(k) ==
    [href |-> <<"/","p","/",PostNames[k]>>, sels |-> {},
     text |-> <<"P","o","s","t"," ",PostNames[k]>>]

\* the long site: a home page without navigation links that links to
\* MaxPosts posts
LongSites == {[u \in {base_url} |-> [k \in 1..MaxPosts |-> PostAnchor(k)]]}

(***************************************************************************)
(* State.                                                                  *)
(***************************************************************************)
VARIABLES
    site,                 \* the anchors of each document (fixed for the session)
    MAX_PAGES_TO_SCRAPE,  \* config.MAX_PAGES_TO_SCRAPE (fixed for the session)
    pc,                   \* position of scrape_website
    result,               \* "running", "returned" or "raised"
    raise_cause,          \* "none", "setup" or "goto": what made scrape_website raise
    scraped_urls,         \* self.scraped_urls
    scraped_data,         \* self.scraped_data: records [url, content]
    shown,                \* URL of the document the browser page shows, <<>> for none
    nav_links,            \* nav_links of scrape_website
    nav_i,                \* position of its for loop over nav_links
    cur_section,          \* url of the running _scrape_page_with_subsections
    subsection_links,     \* subsection_links of _scrape_page_with_subsections
    sub_i,                \* position of its for loop
    harvest_i,            \* position of the first loop of _scrape_remaining_pages
    all_internal_links,   \* all_internal_links of _scrape_remaining_pages
    sweep_list,           \* the entries of list(remaining_links)[:10] the second
                          \* loop of _scrape_remaining_pages has reached, in order
    sweep_rest,           \* its entries the loop has not reached (a set: the code
                          \* does not fix their order)
    saved,                \* what _save_scraped_data wrote, one entry per call
    fetches,              \* log of the page.goto calls issued, in order
    faults,               \* number of failures injected so far
    call,                 \* a helper applied on its own: its name, argument, result
    rag_chain,            \* the module global rag_chain of rag_chain.py
    rag_log               \* log of the get_rag_chain calls, in order

vars == <<site, MAX_PAGES_TO_SCRAPE, pc, result, raise_cause, scraped_urls, scraped_data,
          shown, nav_links, nav_i, cur_section, subsection_links, sub_i, harvest_i,
          all_internal_links, sweep_list, sweep_rest, saved, fetches, faults,
          call, rag_chain, rag_log>>

\* variables of the section loop, of the sweep, and of the session's end
section_vars == <<nav_i, cur_section, subsection_links, sub_i>>
sweep_vars == <<harvest_i, all_internal_links, sweep_list, sweep_rest>>
end_vars == <<result, raise_cause, saved>>
\* what no step of a crawl session changes: the configuration, and the state
\* outside the scraper object
config_vars == <<site, MAX_PAGES_TO_SCRAPE, call, rag_chain, rag_log>>
ledger_vars == <<scraped_urls, scraped_data>>

\* rag_chain = None (rag_chain.py, module level)
None == 0

\* no helper is being applied
NoCall == [fn |-> "none"]

\* __init__: the scraper object before scrape_website has done anything
Fresh ==
    /\ result = "running"
    /\ raise_cause = "none"
    /\ scraped_urls = {}
    /\ scraped_data = <<>>
    /\ shown = <<>>
    /\ nav_links = <<>>
    /\ nav_i = 1
    /\ cur_section = <<>>
    /\ subsection_links = <<>>
    /\ sub_i = 1
    /\ harvest_i = 1
    /\ all_internal_links = {}
    /\ sweep_list = <<>>
    /\ sweep_rest = {}
    /\ saved = <<>>
    /\ fetches = <<>>

\* a fresh scraper object, no failure injected yet
Constructed ==
    /\ Fresh
    /\ faults = 0

\* the state outside the scraper object, untouched
Outside ==
    /\ call = NoCall
    /\ rag_chain = None
    /\ rag_log = <<>>

\* __init__ and the configuration
Init ==
    /\ site \in Sites
    /\ MAX_PAGES_TO_SCRAPE \in 1..MaxBudget
    /\ pc = "launch"
    /\ Constructed
    /\ Outside

(***************************************************************************)
(* The browser page.                                                       *)
(***************************************************************************)
\* the anchors of the document the page shows
AnchorsOf(doc) == IF doc \in DOMAIN site THEN site[doc] ELSE <<>>

\* the outcomes of one page.goto: a 200 response with rendered text (with
\* content, or that cleaning empties), a non-200 response, or an exception
\* raised before or after the document was replaced
GoodOutcome == [kind |-> "ok", text |-> GoodText]
FaultOutcomes ==
    { [kind |-> "ok", text |-> BoilerText],
      [kind |-> "bad_status", text |-> <<>>],
      [kind |-> "exc_stay", text |-> <<>>],
      [kind |-> "exc_loaded", text |-> <<>>] }
\* (after a scrape's goto, "exc_loaded" is also an exception of a later step
\* of _scrape_single_page, such as _extract_page_data raising on title.strip())
Outcomes == {GoodOutcome} \cup (IF faults < MaxFaults THEN FaultOutcomes ELSE {})

\* whether the goto raised
Raised(o) == o.kind \in {"exc_stay", "exc_loaded"}

\* the document shown after page.goto(url) ended with outcome o
ShownAfter(url, o) == IF o.kind = "exc_stay" THEN shown ELSE url

\* the log entry of a page.goto; `links` names the failure of the link
\* extraction that follows the goto ("none": no failure, or no extraction)
Fetch(url, phase, o, delay, recorded, links) ==
    [url |-> url, phase |-> phase, kind |-> o.kind, text |-> o.text,
     n_before |-> Len(scraped_data), delay |-> delay, recorded |-> recorded,
     links |-> links]

\* the document shown and the log after page.goto(url) as issued by `phase`
Load(url, phase, o, delay, recorded, links) ==
    /\ shown' = ShownAfter(url, o)
    /\ fetches' = Append(fetches, Fetch(url, phase, o, delay, recorded, links))

\* page.goto(url) as issued by `phase`, no link extraction following
Goto(url, phase, o, delay, recorded) ==
    /\ Load(url, phase, o, delay, recorded, "none")
    /\ faults' = IF o = GoodOutcome THEN faults ELSE faults + 1

(***************************************************************************)
(* Link extraction.                                                        *)
(***************************************************************************)
\* nav_selectors of _extract_navigation_links: 8 selectors, tried in order
nav_selectors == 8

\* section_keywords of _extract_navigation_links
section_keywords ==
    { <<"a","b","o","u","t">>, <<"s","e","r","v","i","c","e","s">>,
      <<"t","e","a","m">>, <<"r","e","s","o","u","r","c","e","s">>,
      <<"c","o","n","t","a","c","t">>, <<"p","o","r","t","f","o","l","i","o">>,
      <<"b","l","o","g">> }

\* an anchor with full_url = urljoin(self.base_url, href)
Resolved(a) == [href |-> a.href, sels |-> a.sels, text |-> a.text,
                full_url |-> urljoin(base_url, a.href)]

\* the anchors of a document, each with its full_url
ResolveAll(anchors) == [i \in 1..Len(anchors) |-> Resolved(anchors[i])]

\* the full_urls of resolved anchors
FullUrls(anchors) == [i \in 1..Len(anchors) |-> anchors[i].full_url]

\* the links one navigation selector contributes
SelectorLinks(anchors, k) ==
    LET IsNav(a) == /\ k \in a.sels
                    /\ a.href # <<>>
                    /\ _is_valid_url(a.full_url)
                    /\ _is_main_section(a.href)
    IN  FullUrls(SelectSeq(anchors, IsNav))

\* the links the scan of all anchors' link text contributes
TextLinks(anchors) ==
    LET LinkText(a) == Strip(Lower(a.text))
        ByText(a) == /\ LET link_text == LinkText(a)
                        IN  \E keyword \in section_keywords : Contains(link_text, keyword)
                     /\ a.href # <<>>
                     /\ _is_valid_url(a.full_url)
    IN  FullUrls(SelectSeq(anchors, ByText))

\* the navigation links of resolved anchors, the queries from selector `from` on
NavLinksFrom(anchors, from) ==
    DictFromKeys(Flatten([k \in 1..(nav_selectors - from + 1) |->
                             SelectorLinks(anchors, k + from - 1)])
                 \o TextLinks(anchors))

\* _extract_navigation_links(page); `fault` names the query that raises:
\* "none", "dropdown" (the dropdown-trigger query), "selector" (the query of
\* the first navigation selector) or "all_links" (the query of all anchors)
_extract_navigation_links(anchors, fault) ==
    IF fault \in {"dropdown", "all_links"} THEN <<>>
    ELSE NavLinksFrom(ResolveAll(anchors), IF fault = "selector" THEN 2 ELSE 1)

\* the subsection links among resolved anchors
SubsectionLinks(anchors, parent_url) ==
    LET IsSub(a) == /\ a.href # <<>>
                    /\ _is_valid_url(a.full_url)
                    /\ _is_likely_subsection(parent_url, a.full_url)
    IN  DictFromKeys(FullUrls(SelectSeq(anchors, IsSub)))

\* _extract_subsection_links(page, parent_url); with fault "raise" the query
\* of all anchors, a get_attribute or urljoin raises, and the except clause
\* returns [] whatever was collected
_extract_subsection_links(anchors, parent_url, fault) ==
    IF fault = "raise" THEN <<>>
    ELSE SubsectionLinks(ResolveAll(anchors), parent_url)

\* the internal links among resolved anchors
InternalLinks(anchors) ==
    LET IsInternal(a) == a.href # <<>> /\ _is_valid_url(a.full_url)
    IN  DictFromKeys(FullUrls(SelectSeq(anchors, IsInternal)))

\* _extract_internal_links(page); with fault "raise" the query of all
\* anchors, a get_attribute or urljoin raises, and the except clause returns []
_extract_internal_links(anchors, fault) ==
    IF fault = "raise" THEN <<>>
    ELSE InternalLinks(ResolveAll(anchors))

(***************************************************************************)
(* _scrape_single_page.                                                    *)
(***************************************************************************)
\* _extract_page_data(page, url, content): the record built from the
\* rendered text (url and cleaned content; the other fields are not modelled)
_extract_page_data(url, text) == [url |-> url, content |-> _clean_text(text)]

\* mutant of AlreadyScraped: the visited test never finds the url
AlreadyScraped_Never(url) == FALSE

\* the visited test: url in self.scraped_urls
AlreadyScraped(url) == url \in scraped_urls

\* mutant of HasContent: the content gate lets every page through
HasContent_Always(page_data) == TRUE

\* the content gate: page_data and page_data['content'].strip()
HasContent(page_data) == Strip(page_data.content) # <<>>

\* mutant of BudgetExhausted: the test compares with > instead of >=
BudgetExhausted_OffByOne == Len(scraped_data) > MAX_PAGES_TO_SCRAPE

\* the budget test: len(self.scraped_data) >= MAX_PAGES_TO_SCRAPE
BudgetExhausted == Len(scraped_data) >= MAX_PAGES_TO_SCRAPE

\* mutant of Record: the record is appended, the url is not marked visited
Record_NoMark(page_data) ==
    /\ scraped_data' = Append(scraped_data, page_data)
    /\ UNCHANGED scraped_urls

\* self.scraped_data.append(page_data); self.scraped_urls.add(url)
Record(page_data) ==
    /\ scraped_data' = Append(scraped_data, page_data)
    /\ scraped_urls' = scraped_urls \cup {page_data.url}

\* the cost of an outcome against MaxFaults
Cost(o) == IF o = GoodOutcome THEN 0 ELSE 1

\* the cost of a link-extraction failure against MaxFaults
LinkCost(fault) == IF fault = "none" THEN 0 ELSE 1

\* the failures of a link extraction after n failures of the session
LinkFaults(n) == {"none"} \cup (IF n < MaxFaults THEN {"raise"} ELSE {})

\* what _scrape_single_page(page, url) does to the scraper and the page, its
\* page.goto ending with outcome o; `phase`, `delay` (whether
\* asyncio.sleep(SCRAPING_DELAY) ran just before the call) and `links` only
\* label the log entry
ScrapeSinglePage(url, phase, delay, o, links) ==
    IF AlreadyScraped(url)
    THEN UNCHANGED <<scraped_data, scraped_urls, shown, fetches>>
    ELSE LET page_data == _extract_page_data(url, o.text)
             keep == o.kind = "ok" /\ HasContent(page_data)
         IN  /\ Load(url, phase, o, delay, keep, links)
             /\ IF keep THEN Record(page_data) ELSE UNCHANGED ledger_vars

\* _scrape_single_page(page, url), its page.goto ending with outcome o
_scrape_single_page(url, phase, delay, o) ==
    /\ ScrapeSinglePage(url, phase, delay, o, "none")
    /\ faults' = IF AlreadyScraped(url) THEN faults ELSE faults + Cost(o)

(***************************************************************************)
(* scrape_website, step by step.                                           *)
(***************************************************************************)
\* the outcomes of a goto whose response is not inspected
UncheckedOutcomes == {o \in Outcomes : o.text = <<>> \/ o = GoodOutcome}

\* the failures of a link query during navigation discovery
NavFaults(n) == {"none"} \cup
                (IF n < MaxFaults THEN {"dropdown", "selector", "all_links"} ELSE {})

\* launching the browser, creating the context or the page raises
LaunchFails ==
    /\ pc = "launch"
    /\ pc' = "done"
    /\ result' = "raised"
    /\ raise_cause' = "setup"
    /\ UNCHANGED <<config_vars, ledger_vars, shown, nav_links, section_vars,
                   sweep_vars, saved, fetches, faults>>

\* browser, context and page are created
Launch ==
    /\ pc = "launch"
    /\ pc' = "discover"
    /\ UNCHANGED <<config_vars, ledger_vars, shown, nav_links, section_vars,
                   sweep_vars, end_vars, fetches, faults>>

\* page.goto(self.base_url) raises: the except clause re-raises
DiscoverRaises ==
    /\ pc = "discover"
    /\ \E o \in UncheckedOutcomes :
          /\ Raised(o)
          /\ Goto(base_url, "discover", o, FALSE, FALSE)
          /\ faults' = faults + Cost(o)
    /\ pc' = "done"
    /\ result' = "raised"
    /\ raise_cause' = "goto"
    /\ UNCHANGED <<config_vars, ledger_vars, nav_links, section_vars, sweep_vars, saved>>

\* page.goto(self.base_url); nav_links = _extract_navigation_links(page)
DiscoverNav ==
    /\ pc = "discover"
    /\ \E o \in UncheckedOutcomes :
          /\ ~Raised(o)
          /\ \E fault \in NavFaults(faults + Cost(o)) :
                /\ Load(base_url, "discover", o, FALSE, FALSE, fault)
                /\ nav_links' = _extract_navigation_links(AnchorsOf(base_url), fault)
                /\ faults' = faults + Cost(o) + (IF fault = "none" THEN 0 ELSE 1)
    /\ pc' = "home"
    /\ UNCHANGED <<config_vars, ledger_vars, section_vars, sweep_vars, end_vars>>

\* await self._scrape_single_page(page, self.base_url)
ScrapeHome ==
    /\ pc = "home"
    /\ \E o \in Outcomes : _scrape_single_page(base_url, "home", FALSE, o)
    /\ pc' = "sections"
    /\ UNCHANGED <<config_vars, nav_links, section_vars, sweep_vars, end_vars>>

\* mutant of SectionsDone: the for loop over nav_links is left at any round
SectionsDone_Early ==
    /\ pc = "sections"
    /\ pc' = "sweep"
    /\ UNCHANGED <<config_vars, ledger_vars, shown, nav_links, section_vars,
                   sweep_vars, end_vars, fetches, faults>>

\* the for loop over nav_links ends
SectionsDone ==
    /\ pc = "sections"
    /\ nav_i > Len(nav_links)
    /\ pc' = "sweep"
    /\ UNCHANGED <<config_vars, ledger_vars, shown, nav_links, section_vars,
                   sweep_vars, end_vars, fetches, faults>>

\* a nav_url that is already scraped, or met with the budget exhausted: the
\* loop's own test or the first test of _scrape_page_with_subsections skips it
SectionSkip ==
    /\ pc = "sections"
    /\ nav_i <= Len(nav_links)
    /\ AlreadyScraped(nav_links[nav_i]) \/ BudgetExhausted
    /\ nav_i' = nav_i + 1
    /\ UNCHANGED <<config_vars, ledger_vars, shown, nav_links, cur_section,
                   subsection_links, sub_i, sweep_vars, end_vars, fetches, faults, pc>>

\* _scrape_page_with_subsections(page, nav_url) up to its for loop: the
\* section's page is scraped, then subsection links are read off the page
\* shown, which may fail
SectionScrape ==
    /\ pc = "sections"
    /\ nav_i <= Len(nav_links)
    /\ ~(AlreadyScraped(nav_links[nav_i]) \/ BudgetExhausted)
    /\ \E o \in Outcomes :
          \E fault \in LinkFaults(faults + Cost(o)) :
              /\ ScrapeSinglePage(nav_links[nav_i], "section", TRUE, o, fault)
              /\ faults' = faults + Cost(o) + LinkCost(fault)
              /\ subsection_links' =
                    _extract_subsection_links(AnchorsOf(shown'), nav_links[nav_i], fault)
    /\ cur_section' = nav_links[nav_i]
    /\ sub_i' = 1
    /\ pc' = "subsections"
    /\ UNCHANGED <<config_vars, nav_links, nav_i, sweep_vars, end_vars>>

\* subsection_links[:5]
SubsectionLimit == 5

\* mutant of SubsectionsTaken: the list is not cut
SubsectionsTaken_All == subsection_links

\* the subsections taken
SubsectionsTaken ==
    SubSeq(subsection_links, 1,
           IF Len(subsection_links) < SubsectionLimit
           THEN Len(subsection_links) ELSE SubsectionLimit)

\* the for loop over subsection_links[:5] ends
SubsectionsDone ==
    /\ pc = "subsections"
    /\ sub_i > Len(SubsectionsTaken)
    /\ pc' = "sections"
    /\ nav_i' = nav_i + 1
    /\ UNCHANGED <<config_vars, ledger_vars, shown, nav_links, cur_section,
                   subsection_links, sub_i, sweep_vars, end_vars, fetches, faults>>

\* one round of the for loop over subsection_links[:5]
SubsectionStep ==
    /\ pc = "subsections"
    /\ sub_i <= Len(SubsectionsTaken)
    /\ \E o \in Outcomes :
          _scrape_single_page(SubsectionsTaken[sub_i], "subsection", TRUE, o)
    /\ sub_i' = sub_i + 1
    /\ UNCHANGED <<config_vars, nav_links, nav_i, cur_section, subsection_links,
                   sweep_vars, end_vars, pc>>

\* _scrape_remaining_pages returns at once: the budget is exhausted
SweepSkipped ==
    /\ pc = "sweep"
    /\ BudgetExhausted
    /\ pc' = "save"
    /\ UNCHANGED <<config_vars, ledger_vars, shown, nav_links, section_vars,
                   sweep_vars, end_vars, fetches, faults>>

\* _scrape_remaining_pages starts harvesting links
SweepEnter ==
    /\ pc = "sweep"
    /\ ~BudgetExhausted
    /\ pc' = "harvest"
    /\ harvest_i' = 1
    /\ all_internal_links' = {}
    /\ UNCHANGED <<config_vars, ledger_vars, shown, nav_links, section_vars,
                   sweep_list, sweep_rest, end_vars, fetches, faults>>

\* one round of the loop over self.scraped_data: revisit the page, add its
\* links (none when the goto or the link extraction raises)
HarvestStep ==
    /\ pc = "harvest"
    /\ harvest_i <= Len(scraped_data)
    /\ \E o \in UncheckedOutcomes :
          \E fault \in IF Raised(o) THEN {"none"} ELSE LinkFaults(faults + Cost(o)) :
              /\ Load(scraped_data[harvest_i].url, "harvest", o, FALSE, FALSE, fault)
              /\ faults' = faults + Cost(o) + LinkCost(fault)
              /\ all_internal_links' =
                    IF Raised(o) THEN all_internal_links
                    ELSE all_internal_links \cup
                         Range(_extract_internal_links(AnchorsOf(shown'), fault))
    /\ harvest_i' = harvest_i + 1
    /\ UNCHANGED <<config_vars, ledger_vars, nav_links, section_vars, sweep_list,
                   sweep_rest, end_vars, pc>>

\* list(remaining_links)[:10]
SweepLimit == 10

\* the internal links of the page a harvesting revisit loaded, in DOM order
HarvestedLinks(fetch) ==
    IF fetch.phase = "harvest" /\ fetch.kind \in {"ok", "bad_status"}
    THEN _extract_internal_links(AnchorsOf(fetch.url), fetch.links)
    ELSE <<>>

\* the links the sweep harvested, in the order of the records revisited and,
\* within a page, in DOM anchor order, each at its first occurrence
HarvestOrder ==
    DictFromKeys(Flatten([i \in 1..Len(fetches) |-> HarvestedLinks(fetches[i])]))

\* mutant of SweepTaken: the list is not cut
SweepTaken_All(remaining_links) == {remaining_links}

\* the entries of list(remaining_links)[:10], as a set: the set is listed in
\* its iteration order, which the code does not fix (a set of str), so the
\* first 10 entries can be any 10 of its elements (all of them, if fewer)
SweepTaken(remaining_links) ==
    {taken \in SUBSET remaining_links :
        Cardinality(taken) = IF Cardinality(remaining_links) < SweepLimit
                             THEN Cardinality(remaining_links) ELSE SweepLimit}

\* remaining_links = all_internal_links - self.scraped_urls, listed and cut
HarvestDone ==
    /\ pc = "harvest"
    /\ harvest_i > Len(scraped_data)
    /\ sweep_rest' \in SweepTaken(all_internal_links \ scraped_urls)
    /\ sweep_list' = <<>>
    /\ pc' = "sweeping"
    /\ UNCHANGED <<config_vars, ledger_vars, shown, nav_links, section_vars,
                   harvest_i, all_internal_links, end_vars, fetches, faults>>

\* one round of the loop over the remaining links: the next entry of the
\* list is any of those not reached yet
SweepStep ==
    /\ pc = "sweeping"
    /\ ~BudgetExhausted
    /\ \E link \in sweep_rest :
          /\ \E o \in Outcomes : _scrape_single_page(link, "sweep", TRUE, o)
          /\ sweep_list' = Append(sweep_list, link)
          /\ sweep_rest' = sweep_rest \ {link}
    /\ UNCHANGED <<config_vars, nav_links, section_vars, harvest_i,
                   all_internal_links, end_vars, pc>>

\* the loop over the remaining links ends, or breaks on the budget
SweepDone ==
    /\ pc = "sweeping"
    /\ sweep_rest = {} \/ BudgetExhausted
    /\ pc' = "save"
    /\ UNCHANGED <<config_vars, ledger_vars, shown, nav_links, section_vars,
                   sweep_vars, end_vars, fetches, faults>>

\* mutant of Persisted: the records are written in reverse order
Persisted_Reversed(data) ==
    [pages |-> [i \in 1..Len(data) |-> data[Len(data) + 1 - i]],
     total_pages |-> Len(data),
     lines |-> [i \in 1..Len(data) |-> [n |-> i, url |-> data[i].url]]]

\* what _save_scraped_data writes: json.dump(self.scraped_data) to
\* scraped_data.json, and to scraping_summary.txt the total and one numbered
\* line per record (the line's title is read from the same record as its url)
Persisted(data) ==
    [pages |-> data,
     total_pages |-> Len(data),
     lines |-> [i \in 1..Len(data) |-> [n |-> i, url |-> data[i].url]]]

\* _save_scraped_data(), then return self.scraped_data
Save ==
    /\ pc = "save"
    /\ saved' = <<Persisted(scraped_data)>>
    /\ result' = "returned"
    /\ pc' = "done"
    /\ UNCHANGED <<config_vars, ledger_vars, shown, nav_links, section_vars,
                   sweep_vars, raise_cause, fetches, faults>>

Next ==
    \/ LaunchFails
    \/ Launch
    \/ DiscoverRaises
    \/ DiscoverNav
    \/ ScrapeHome
    \/ SectionsDone
    \/ SectionSkip
    \/ SectionScrape
    \/ SubsectionsDone
    \/ SubsectionStep
    \/ SweepSkipped
    \/ SweepEnter
    \/ HarvestStep
    \/ HarvestDone
    \/ SweepStep
    \/ SweepDone
    \/ Save

Spec == Init /\ [][Next]_vars

\* a session on a site with a wide section
InitWide ==
    /\ site \in WideSites
    /\ MAX_PAGES_TO_SCRAPE \in 1..MaxBudget
    /\ pc = "launch"
    /\ Constructed
    /\ Outside

SpecWide == InitWide /\ [][Next]_vars

\* a session on a site of the model, or on the long site, where every page
\* loads and every query succeeds (no failure is left to inject)
InitSweep ==
    \/ Init
    \/ /\ site \in LongSites
       /\ MAX_PAGES_TO_SCRAPE \in 1..MaxBudget
       /\ pc = "launch"
       /\ Fresh
       /\ faults = MaxFaults
       /\ Outside

SpecSweep == InitSweep /\ [][Next]_vars

(***************************************************************************)
(* Properties.                                                             *)
(***************************************************************************)
\* the urls of the records
RecordUrls == {scraped_data[i].url : i \in 1..Len(scraped_data)}

\* the log entries written by _scrape_single_page
ScrapePhases == {"home", "section", "subsection", "sweep"}
ScrapeFetches == {i \in 1..Len(fetches) : fetches[i].phase \in ScrapePhases}

\* the scrape attempts that failed: the goto raised or returned a non-200 status
FailedFetches ==
    {i \in ScrapeFetches : fetches[i].kind \in {"bad_status", "exc_stay", "exc_loaded"}}

\* the urls whose extraction succeeded: a 200 response and text that survives cleaning
SuccessfullyExtracted ==
    {fetches[i].url : i \in {j \in ScrapeFetches :
                                /\ fetches[j].kind = "ok"
                                /\ Strip(_clean_text(fetches[j].text)) # <<>>}}

\* C1 (as claimed): in every reachable state the number of page records is at
\* most MAX_PAGES_TO_SCRAPE.
C1_BudgetBound == Len(scraped_data) <= MAX_PAGES_TO_SCRAPE

\* C2 (as claimed): every page navigation is issued with the number of scraped
\* pages still below MAX_PAGES_TO_SCRAPE.
C2_BudgetCheckedBeforeEveryFetch ==
    \A i \in 1..Len(fetches) : fetches[i].n_before < MAX_PAGES_TO_SCRAPE

\* C3: no two page records of scraped_data have the same url.
C3_UniqueRecordUrls ==
    \A i, j \in 1..Len(scraped_data) :
        i # j => scraped_data[i].url # scraped_data[j].url

\* C3 witness: a session returned at least two records, one of them for a URL
\* that was also a navigation link and a link harvested by the sweep.
C3_Witness ==
    /\ result = "returned"
    /\ Len(scraped_data) >= 2
    /\ \E u \in RecordUrls : u \in Range(nav_links) /\ u \in all_internal_links

\* C4 (as claimed): no URL is navigated to more than once in a session.
C4_NoUrlNavigatedTwice ==
    \A i, j \in 1..Len(fetches) : i # j => fetches[i].url # fetches[j].url

\* C5: every record's url is in scraped_urls, and the number of records is the
\* number of visited URLs whose extraction succeeded; so no state has a record
\* whose URL is not marked visited.
C5_LedgerConsistent ==
    /\ \A i \in 1..Len(scraped_data) : scraped_data[i].url \in scraped_urls
    /\ Len(scraped_data) = Cardinality(scraped_urls \cap SuccessfullyExtracted)

\* C5 witness: records were appended, and another URL's scrape attempt failed.
C5_Witness ==
    /\ Len(scraped_data) >= 2
    /\ \E i \in FailedFetches : fetches[i].url \notin scraped_urls

\* C6: every record's content is non-empty after trimming and is the cleaned
\* text of the page load that recorded it; a page load whose cleaned text is
\* empty appended no record.
C6_NonEmptyContent ==
    /\ \A i \in 1..Len(scraped_data) :
          /\ Strip(scraped_data[i].content) # <<>>
          /\ \E j \in ScrapeFetches :
                /\ fetches[j].recorded
                /\ fetches[j].url = scraped_data[i].url
                /\ scraped_data[i].content = _clean_text(fetches[j].text)
    /\ \A j \in ScrapeFetches :
          Strip(_clean_text(fetches[j].text)) = <<>> => ~fetches[j].recorded

\* C6 witness: a page loaded with status 200 whose text cleaning empties was
\* dropped, and another page was recorded.
C6_Witness ==
    /\ scraped_data # <<>>
    /\ \E j \in ScrapeFetches :
          /\ fetches[j].kind = "ok"
          /\ fetches[j].text # <<>>
          /\ _clean_text(fetches[j].text) = <<>>
          /\ ~fetches[j].recorded

\* C7 (as claimed): scrape_website raises only on a setup failure.
C7_OnlySetupFailureRaises == result = "raised" => raise_cause = "setup"

\* C8 (as claimed): a URL whose navigation returned a non-200 status got no
\* record from that attempt and does not appear in the output.
C8_BadStatusUrlNotInOutput ==
    \A i \in ScrapeFetches :
        fetches[i].kind = "bad_status" =>
            ~fetches[i].recorded /\ fetches[i].url \notin RecordUrls

\* C9 (as claimed): every URL whose fetch was attempted is in the visited set.
C9_AttemptedUrlsVisited ==
    \A i \in ScrapeFetches : fetches[i].url \in scraped_urls

\* C10 (as claimed): a URL whose fetch failed is not navigated to again later
\* in the session.
C10_FailedUrlNotRefetched ==
    \A i \in FailedFetches :
        \A j \in (i + 1)..Len(fetches) : fetches[j].url # fetches[i].url

\* the home scrape appended the home page's record
HomeRecorded ==
    \E i \in 1..Len(fetches) : fetches[i].phase = "home" /\ fetches[i].recorded

\* the phases that follow the home scrape
LaterPhases == {"section", "subsection", "harvest", "sweep"}

\* C11 (as claimed): with a budget of 1 a completed session's output is one
\* record, for the home page URL, and no section, subsection or sweep fetch
\* was attempted.
C11_BudgetOneAsClaimed ==
    (MAX_PAGES_TO_SCRAPE = 1 /\ result = "returned") =>
        /\ Len(scraped_data) = 1
        /\ scraped_data[1].url = base_url
        /\ \A i \in 1..Len(fetches) : fetches[i].phase \notin LaterPhases

\* C11 (amended): with a budget of 1, once the home scrape has recorded the
\* home page the ledger is that one record, for the home page URL, and no
\* section, subsection or sweep fetch is attempted, up to and including the
\* session's return.
C11_BudgetOneHomeRecorded ==
    (MAX_PAGES_TO_SCRAPE = 1 /\ HomeRecorded) =>
        /\ Len(scraped_data) = 1
        /\ scraped_data[1].url = base_url
        /\ \A i \in 1..Len(fetches) : fetches[i].phase \notin LaterPhases

\* C11 witness: a session with budget 1 whose home page was recorded and
\* exposed at least two navigation links has returned.
C11_Witness ==
    /\ MAX_PAGES_TO_SCRAPE = 1
    /\ result = "returned"
    /\ HomeRecorded
    /\ Len(nav_links) >= 2

\* C12 (as claimed): every page navigation after the first is preceded by a
\* SCRAPING_DELAY pause since the navigation before it.
C12_DelayBeforeEveryFetch ==
    \A i \in 2..Len(fetches) : fetches[i].delay

\* the log entries of section fetches and of subsection fetches
SectionFetches == {i \in 1..Len(fetches) : fetches[i].phase = "section"}
SubsectionFetches == {i \in 1..Len(fetches) : fetches[i].phase = "subsection"}

\* the section fetch whose _scrape_page_with_subsections issued subsection fetch i
SectionOf(i) == CHOOSE j \in SectionFetches : j < i /\ \A k \in SectionFetches : k < i => k <= j

\* the subsection fetches issued for the section of section fetch j
SubsectionFetchesOf(j) == {i \in SubsectionFetches : SectionOf(i) = j}

\* the URLs the anchors of the sites resolve to
LinkedUrls ==
    {urljoin(base_url, a.href) :
        a \in UNION {UNION {Range(s[u]) : u \in DOMAIN s} : s \in Sites \cup WideSites \cup LongSites}}

\* for each URL, the URLs that are valid and are a subsection of it
ValidSubsectionsOf ==
    [parent \in LinkedUrls |->
        {child \in LinkedUrls : _is_valid_url(child) /\ _is_likely_subsection(parent, child)}]

\* C13 (as claimed): for each section at most 5 subsection fetches are
\* issued; every URL fetched as a subsection is valid and is a subsection of
\* its section's URL; and every candidate among the taken ones that the loop
\* has passed was fetched as a subsection of the running section.
C13_AsClaimed ==
    /\ \A j \in SectionFetches : Cardinality(SubsectionFetchesOf(j)) <= 5
    /\ \A i \in SubsectionFetches :
          /\ fetches[SectionOf(i)].url \in LinkedUrls
          /\ fetches[i].url \in ValidSubsectionsOf[fetches[SectionOf(i)].url]
    /\ pc = "subsections" =>
          \A k \in 1..(sub_i - 1) :
              (k <= 5 /\ k <= Len(subsection_links)) =>
                  \E i \in SubsectionFetches :
                      /\ fetches[i].url = subsection_links[k]
                      /\ fetches[SectionOf(i)].url = cur_section
                      /\ \A j \in SectionFetches : j <= SectionOf(i)

\* C13 (amended): for each section at most 5 subsection fetches are issued;
\* every URL fetched as a subsection is valid and is a subsection of its
\* section's URL; and when the loop reaches a candidate among the taken ones,
\* it fetches it as a subsection unless it is in the visited set then, in
\* which case it issues no fetch.
C13_SubsectionFetches ==
    /\ [](/\ \A j \in SectionFetches : Cardinality(SubsectionFetchesOf(j)) <= 5
          /\ \A i \in SubsectionFetches :
                /\ fetches[SectionOf(i)].url \in LinkedUrls
                /\ fetches[i].url \in ValidSubsectionsOf[fetches[SectionOf(i)].url])
    /\ [][(pc = "subsections" /\ sub_i' = sub_i + 1
              /\ sub_i <= 5 /\ sub_i <= Len(subsection_links)) =>
             IF subsection_links[sub_i] \in scraped_urls
             THEN fetches' = fetches
             ELSE /\ Len(fetches') = Len(fetches) + 1
                  /\ fetches'[Len(fetches')].url = subsection_links[sub_i]
                  /\ fetches'[Len(fetches')].phase = "subsection"]_vars

\* C13 witness: the /team section page carried more than 5 subsection
\* candidates, exactly 5 subsection fetches were issued for it, /team/a among
\* them, and the session returned.
C13_Witness ==
    /\ result = "returned"
    /\ Len(subsection_links) > 5
    /\ \E j \in SectionFetches :
          /\ fetches[j].url = U_team
          /\ Cardinality(SubsectionFetchesOf(j)) = 5
          /\ \E i \in SubsectionFetchesOf(j) : fetches[i].url = U_team_a

(***************************************************************************)
(* The helpers applied on their own: one call of a helper of the scraper   *)
(* on an argument drawn from a bounded set.                                *)
(***************************************************************************)
\* the longest candidate list given to the deduplication
MaxCandidates == 4
\* the largest number of lines of a text given to _clean_text
MaxLines == 3

\* the URLs given to _is_valid_url and _is_likely_subsection: the base URL,
\* /team, /team/a, /blog and
\*   "https://x.io/team/"
\*   "https://x.io/teams"
\*   "https://x.io/about"
\*   "https://x.io/style.css"
\*   "https://x.io/a.css?v=1"
\*   "https://x.io/A.PDF"
\*   "https://x.io/login"
\*   "https://x.io/team#top"
\*   "https://x.io/team/a;v=1"
\*   "https://y.io/team/a"
\*   "https://sub.x.io/team"
\*   "mailto:a@x.io"
SampleUrls ==
    { base_url, U_team, U_team_a, U_blog,
      U_team \o <<"/">>,
      U_team \o <<"s">>,
      base_url \o <<"/","a","b","o","u","t">>,
      base_url \o <<"/","s","t","y","l","e",".","c","s","s">>,
      base_url \o <<"/","a",".","c","s","s","?","v","=","1">>,
      base_url \o <<"/","A",".","P","D","F">>,
      base_url \o <<"/","l","o","g","i","n">>,
      U_team \o <<"#","t","o","p">>,
      U_team_a \o <<";","v","=","1">>,
      <<"h","t","t","p","s",":","/","/","y",".","i","o","/","t","e","a","m","/","a">>,
      <<"h","t","t","p","s",":","/","/","s","u","b",".","x",".","i","o","/","t","e","a","m">>,
      <<"m","a","i","l","t","o",":","a","@","x",".","i","o">> }

\* the candidate lists given to the deduplication of _extract_navigation_links
CandidateLists ==
    UNION {[1..n -> {U_team, U_blog, U_team_a}] : n \in 0..MaxCandidates}

\* the lines of the texts given to _clean_text: "", "Home", " Menu ", "SKIP",
\* "abc", "  ab  ", "abcd", " Our team\t", and "home" between a vertical tab
\* and a no-break space
SampleLines ==
    { <<>>, <<"H","o","m","e">>, <<" ","M","e","n","u"," ">>, <<"S","K","I","P">>,
      <<"a","b","c">>, <<" "," ","a","b"," "," ">>, <<"a","b","c","d">>,
      <<" ","O","u","r"," ","t","e","a","m","\t">>,
      <<"","h","o","m","e"," ">> }

\* "Home\n\n\n\nWelcome to Example\nMenu\n"
ExampleText == <<"H","o","m","e","\n","\n","\n","\n","W","e","l","c","o","m","e"," ","t","o"," ","E","x","a","m","p","l","e","\n","M","e","n","u","\n">>

\* "Welcome to Example"
ExampleCleaned == <<"W","e","l","c","o","m","e"," ","t","o"," ","E","x","a","m","p","l","e">>

\* the texts given to _clean_text
SampleTexts ==
    {JoinLines(ls) : ls \in UNION {[1..n -> SampleLines] : n \in 1..MaxLines}}
        \cup {ExampleText}

\* the number of content_selectors of _extract_page_data
content_selectors == 9

\* the largest number of content selectors that match an element of a page
MaxRegions == 2

\* the elements of a rendered document that bear on the title, in document
\* order: the <title> of the head, first-level headings, a paragraph
TitleDoms ==
    LET title == [tag |-> "title", text |-> <<"P","a","g","e"," ","t","i","t","l","e">>]
        h1    == [tag |-> "h1", text |-> <<" ","H","e","a","d","i","n","g","\n">>]
        p     == [tag |-> "p", text |-> <<"M","a","i","n"," ","t","e","x","t">>]
    IN  { <<>>, <<p>>, <<title>>, <<p, h1>>, <<title, p, h1>>, <<title, h1, h1>>, <<h1, title>> }

\* soup.title: no <title> tag in the markup, the tag with its string, or a
\* tag whose .string is None (an empty <title></title>)
SoupTitles ==
    { [kind |-> "absent"],
      [kind |-> "tag", string |-> <<"M","a","r","k","u","p"," ","t","i","t","l","e">>],
      [kind |-> "no_string"] }

\* what page.query_selector(selector) and inner_text() yield for one content
\* selector: no element, an exception, or the element's rendered text
RegionAbsent == [kind |-> "absent"]
RegionOutcomes ==
    { [kind |-> "raise"],
      [kind |-> "text", text |-> <<" ","\n">>],
      [kind |-> "text", text |-> <<"M","a","i","n"," ","t","e","x","t">>],
      [kind |-> "text", text |-> <<"M","o","r","e"," ","t","e","x","t","\n">>] }

\* for each content selector, in priority order, what it yields: at most
\* MaxRegions selectors match an element or raise
RegionMaps ==
    UNION {{[k \in 1..content_selectors |-> IF k \in S THEN f[k] ELSE RegionAbsent] :
               f \in [S -> RegionOutcomes]} :
           S \in {T \in SUBSET (1..content_selectors) : Cardinality(T) <= MaxRegions}}

\* what page.query_selector('body') and inner_text() yield
BodyOutcomes ==
    { [kind |-> "absent"], [kind |-> "raise"],
      [kind |-> "text", text |-> <<" ","\n">>],
      [kind |-> "text", text |-> <<"B","o","d","y"," ","t","e","x","t">>] }

\* soup.get_text(): the plain text of the markup, scripts and chrome removed
MarkupTexts == { <<>>, <<"M","a","r","k","u","p"," ","t","e","x","t">> }

\* the pages _extract_page_data is applied to: every title part on a page
\* with body text only, and every content part on a page with a <title> and
\* a first-level heading
PageViews ==
    {[dom |-> d, title_fault |-> tf, soup_title |-> st, regions |-> r, body |-> b,
      markup_text |-> m] :
        d \in TitleDoms, tf \in {"none", "query_selector", "inner_text"}, st \in SoupTitles,
        r \in {[k \in 1..content_selectors |-> RegionAbsent]},
        b \in {[kind |-> "text", text |-> <<"B","o","d","y"," ","t","e","x","t">>]},
        m \in MarkupTexts}
    \cup
    {[dom |-> d, title_fault |-> "none", soup_title |-> st, regions |-> r, body |-> b,
      markup_text |-> m] :
        d \in {x \in TitleDoms : Len(x) = 3 /\ x[2].tag = "p"},
        st \in {x \in SoupTitles : x.kind = "tag"},
        r \in RegionMaps, b \in BodyOutcomes, m \in MarkupTexts}

\* the title block of _extract_page_data, when it leaves a string:
\* page.query_selector('h1, title') is the first element in document order
\* that matches either selector
ExtractTitle(view) ==
    LET Matches(e) == e.tag \in {"h1", "title"}
    IN  IF view.title_fault = "query_selector" THEN <<>>
        ELSE IF SelectSeq(view.dom, Matches) # <<>>
             THEN IF view.title_fault = "inner_text" THEN <<>>
                  ELSE SelectSeq(view.dom, Matches)[1].text
        ELSE IF view.soup_title.kind = "tag" THEN view.soup_title.string
        ELSE <<>>

\* the title block leaves title = None: no element matches 'h1, title' and
\* soup.title is a tag whose .string is None
TitleIsNone(view) ==
    LET Matches(e) == e.tag \in {"h1", "title"}
    IN  /\ view.title_fault # "query_selector"
        /\ SelectSeq(view.dom, Matches) = <<>>
        /\ view.soup_title.kind = "no_string"

\* the for loop over content_selectors, from selector k on, content being
\* the value the loop has assigned so far
RECURSIVE SelectorLoop(_, _, _)
SelectorLoop(view, k, content) ==
    IF k > content_selectors THEN content
    ELSE IF view.regions[k].kind # "text" THEN SelectorLoop(view, k + 1, content)
    ELSE IF Strip(view.regions[k].text) # <<>> THEN view.regions[k].text
    ELSE SelectorLoop(view, k + 1, view.regions[k].text)

\* the fallback to the body text, after the loop left `content`
BodyFallback(view, content) ==
    IF Strip(content) # <<>> THEN content
    ELSE IF view.body.kind = "text" THEN view.body.text
    ELSE view.markup_text

\* the content block of _extract_page_data, before _clean_text
ExtractContent(view) == BodyFallback(view, SelectorLoop(view, 1, <<>>))

\* the calls a behaviour can start with: the helper's name and its argument
Calls ==
    {[fn |-> "dedup", arg |-> l] : l \in CandidateLists}
        \cup {[fn |-> "is_valid", arg |-> u] : u \in SampleUrls}
        \cup {[fn |-> "is_subsection", arg |-> <<p, c>>] : p \in SampleUrls, c \in SampleUrls}
        \cup {[fn |-> "clean_text", arg |-> t] : t \in SampleTexts}
        \cup {[fn |-> "extract_navigation_links", arg |-> [anchors |-> a, fault |-> f]] :
                 a \in PageChoices(base_url),
                 f \in {"none", "dropdown", "selector", "all_links"}}
        \cup {[fn |-> "extract_page_data", arg |-> v] : v \in PageViews}

\* a scraper object on which one helper is about to be applied
InitHelpers ==
    /\ site = <<>>
    /\ MAX_PAGES_TO_SCRAPE = MaxBudget
    /\ pc = "helper"
    /\ Constructed
    /\ call \in Calls
    /\ rag_chain = None
    /\ rag_log = <<>>

\* the variables of a crawl session
crawl_vars == <<site, MAX_PAGES_TO_SCRAPE, pc, result, raise_cause, scraped_urls,
                scraped_data, shown, nav_links, nav_i, cur_section, subsection_links,
                sub_i, harvest_i, all_internal_links, sweep_list, sweep_rest, saved,
                fetches, faults>>

\* the helper f has not been applied yet / has returned
Pending(f) == pc = "helper" /\ call.fn = f /\ "ret" \notin DOMAIN call
Returned(f) == call.fn = f /\ "ret" \in DOMAIN call

\* the call, with its result
Return(value) ==
    /\ call' = [fn |-> call.fn, arg |-> call.arg, ret |-> value]
    /\ UNCHANGED <<crawl_vars, rag_chain, rag_log>>

\* unique_links = list(dict.fromkeys(nav_links))
CallDedup == Pending("dedup") /\ Return(DictFromKeys(call.arg))

\* self._is_valid_url(url)
CallIsValid == Pending("is_valid") /\ Return(_is_valid_url(call.arg))

\* self._is_likely_subsection(parent_url, child_url)
CallIsSubsection ==
    Pending("is_subsection") /\ Return(_is_likely_subsection(call.arg[1], call.arg[2]))

\* self._clean_text(text)
CallCleanText == Pending("clean_text") /\ Return(_clean_text(call.arg))

\* self._extract_navigation_links(page), on a page carrying call.arg.anchors,
\* with the query call.arg.fault raising
CallExtractNavigationLinks ==
    Pending("extract_navigation_links") /\
        Return(_extract_navigation_links(call.arg.anchors, call.arg.fault))

\* self._extract_page_data(page, url, html_content) on the page call.arg:
\* the record, or AttributeError raised by title.strip() on a title of None
CallExtractPageData ==
    Pending("extract_page_data") /\
        Return(IF TitleIsNone(call.arg) THEN [raised |-> "AttributeError"]
               ELSE [url |-> base_url,
                     title |-> Strip(ExtractTitle(call.arg)),
                     content |-> _extract_page_data(base_url,
                                                    ExtractContent(call.arg)).content])

NextHelpers ==
    \/ CallDedup
    \/ CallIsValid
    \/ CallIsSubsection
    \/ CallCleanText
    \/ CallExtractNavigationLinks
    \/ CallExtractPageData

SpecHelpers == InitHelpers /\ [][NextHelpers]_vars

\* the position of the first occurrence of x in seq
FirstIndex(seq, x) ==
    CHOOSE i \in 1..Len(seq) : seq[i] = x /\ \A j \in 1..(i - 1) : seq[j] # x

\* C14: the deduplicated candidate list has no repeats, holds the same set of
\* URLs as the candidate list, lists them in the order of their first
\* occurrences, and [a, b, a, c] yields [a, b, c].
C14_DedupFirstOccurrences ==
    Returned("dedup") =>
        /\ \A i, j \in 1..Len(call.ret) : i # j => call.ret[i] # call.ret[j]
        /\ Range(call.ret) = Range(call.arg)
        /\ \A i, j \in 1..Len(call.ret) :
              i < j => FirstIndex(call.arg, call.ret[i]) < FirstIndex(call.arg, call.ret[j])
        /\ call.arg = <<U_team, U_blog, U_team, U_team_a>> =>
              call.ret = <<U_team, U_blog, U_team_a>>

\* C14 witness: the deduplication returned [a, b, c] for [a, b, a, c].
C14_Witness ==
    /\ Returned("dedup")
    /\ call.arg = <<U_team, U_blog, U_team, U_team_a>>
    /\ call.ret = <<U_team, U_blog, U_team_a>>

\* the url's path ends in a denylisted extension
PathEndsInUnwantedExtension(url) ==
    LET path == Lower(urlparse(url, <<>>).path)
    IN  \E ext \in unwanted_extensions : EndsWith(path, ext)

\* the url contains a denylisted substring
HasUnwantedPattern(url) ==
    LET lowered == Lower(url)
    IN  \E pattern \in unwanted_patterns : Contains(lowered, pattern)

\* C15 (as claimed): is_valid(url) is true exactly when the URL's host is the
\* base host, its path does not end in a denylisted extension and it contains
\* no denylisted substring.
C15_IsValidAsClaimed ==
    Returned("is_valid") =>
        call.ret = (/\ urlparse(call.arg, <<>>).netloc = domain
                    /\ ~PathEndsInUnwantedExtension(call.arg)
                    /\ ~HasUnwantedPattern(call.arg))

\* t is path with its leading and trailing slashes trimmed
IsTrimOf(t, path) ==
    \E a, b \in 0..Len(path) :
        /\ a + b <= Len(path)
        /\ t = SubSeq(path, a + 1, Len(path) - b)
        /\ \A k \in 1..a : path[k] = "/"
        /\ \A k \in (Len(path) - b + 1)..Len(path) : path[k] = "/"
        /\ t = <<>> \/ (t[1] # "/" /\ t[Len(t)] # "/")

\* the path with its leading and trailing slashes trimmed
Trimmed(path) ==
    CHOOSE t \in {SubSeq(path, i, j) : i \in 1..(Len(path) + 1), j \in 0..Len(path)} :
        IsTrimOf(t, path)

\* tp is a prefix of tc
IsPrefixOf(tp, tc) == \E k \in 0..Len(tc) : SubSeq(tc, 1, k) = tp

\* C16: is_subsection(parent_url, child_url) is true exactly when the child's
\* trimmed path has the parent's trimmed path as a prefix and the two differ;
\* it is false whenever the two trimmed paths are the same.
C16_IsSubsectionProperPrefix ==
    Returned("is_subsection") =>
        /\ call.ret = (/\ IsPrefixOf(Trimmed(urlparse(call.arg[1], <<>>).path),
                                     Trimmed(urlparse(call.arg[2], <<>>).path))
                       /\ Trimmed(urlparse(call.arg[1], <<>>).path)
                             # Trimmed(urlparse(call.arg[2], <<>>).path))
        /\ Trimmed(urlparse(call.arg[1], <<>>).path) = Trimmed(urlparse(call.arg[2], <<>>).path)
              => ~call.ret

\* C16 witness: /team/a was found a subsection of /team, and /team/ was found
\* not to be a subsection of /team.
C16_Witness ==
    /\ Returned("is_subsection")
    /\ \/ call.arg = <<U_team, U_team_a>> /\ call.ret
       \/ call.arg = <<U_team, U_team \o <<"/">>>> /\ ~call.ret

\* the navigation tokens of the claim: home, menu, skip
NavigationTokens == { <<"h","o","m","e">>, <<"m","e","n","u">>, <<"s","k","i","p">> }

\* a line the cleaning is to keep: at least 4 characters, not a navigation token
WantedLine(line) == Len(line) >= 4 /\ Lower(line) \notin NavigationTokens

\* the lines of a text, none for the empty text
LinesOf(text) == IF text = <<>> THEN <<>> ELSE SplitLines(text)

\* the text is trimmed and has no run of blank lines longer than one
Tidy(text) ==
    /\ ~Contains(text, <<"\n","\n","\n">>)
    /\ text = <<>> \/ (text[1] \notin Whitespace /\ text[Len(text)] \notin Whitespace)

\* C17 (as claimed): the cleaned text is, trimmed, the lines of the input that
\* are at least 4 characters long and are not home, menu or skip, in order;
\* it has no run of blank lines longer than one; the example input yields
\* "Welcome to Example".
C17_CleanTextAsClaimed ==
    Returned("clean_text") =>
        /\ call.ret = Strip(JoinLines(SelectSeq(SplitLines(call.arg), WantedLine)))
        /\ Tidy(call.ret)
        /\ call.arg = ExampleText => call.ret = ExampleCleaned

\* C17 (amended): the lines of the cleaned text are, in order, exactly the
\* trimmed lines of the input whose trimmed form is at least 4 characters long
\* and is not home, menu or skip; the cleaned text is trimmed and has no run
\* of blank lines longer than one; the example input yields "Welcome to
\* Example".
C17_CleanTextTrimmedLines ==
    Returned("clean_text") =>
        /\ LinesOf(call.ret) = SelectSeq(StripLines(SplitLines(call.arg)), WantedLine)
        /\ Tidy(call.ret)
        /\ call.arg = ExampleText => call.ret = ExampleCleaned

\* C17 witness: the example input was cleaned to "Welcome to Example".
C17_Witness ==
    /\ Returned("clean_text")
    /\ call.arg = ExampleText
    /\ call.ret = ExampleCleaned

\* C19: once persistence has run it has run exactly once, after the sweep, at
\* the session's return; the serialized list is scraped_data, record for
\* record in scrape order, the summary's total is its length and the summary's
\* numbered lines follow the same order; this stays so in every later state, so
\* no record is added after persistence; and a session returns only persisted.
C19_PersistenceHandsOverLedger ==
    /\ saved # <<>> =>
          /\ Len(saved) = 1
          /\ pc = "done" /\ result = "returned"
          /\ saved[1].pages = scraped_data
          /\ saved[1].total_pages = Len(scraped_data)
          /\ Len(saved[1].lines) = Len(scraped_data)
          /\ \A i \in 1..Len(scraped_data) :
                /\ saved[1].lines[i].n = i
                /\ saved[1].lines[i].url = scraped_data[i].url
    /\ result = "returned" => saved # <<>>

\* C19 witness: a session whose sweep recorded a page returned with at least
\* two records persisted.
C19_Witness ==
    /\ saved # <<>>
    /\ Len(scraped_data) >= 2
    /\ \E i \in 1..Len(fetches) : fetches[i].phase = "sweep" /\ fetches[i].recorded

\* a harvested link that was left for the sweep: it was not visited when the
\* sweep computed its candidates (the sweep's own records are entries of its list)
Remaining(url) == url \notin (scraped_urls \ Range(sweep_list))

\* the first 10 of a list
FirstTen(list) == SubSeq(list, 1, IF Len(list) < 10 THEN Len(list) ELSE 10)

\* C18 (as claimed): the sweep's choice and order of URLs is fixed by discovery
\* order and DOM anchor order: the list the sweep loop iterates is the first
\* 10 unvisited harvested links in the order they were harvested (the entries
\* it has reached are the first of them, in that order, and the others are
\* those still to come), so two sessions on the same site with the same fetch
\* outcomes fetch the same sequence.
C18_SweepOrderFixed ==
    pc = "sweeping" =>
        /\ Len(sweep_list) <= Len(FirstTen(SelectSeq(HarvestOrder, Remaining)))
        /\ sweep_list = SubSeq(FirstTen(SelectSeq(HarvestOrder, Remaining)),
                               1, Len(sweep_list))
        /\ sweep_rest = Range(FirstTen(SelectSeq(HarvestOrder, Remaining)))
                            \ Range(sweep_list)

(***************************************************************************)
(* rag_chain.py: the module global rag_chain and its accessor.             *)
(***************************************************************************)
\* the number of get_rag_chain calls of one behaviour
MaxCalls == 4

\* the callers of get_rag_chain: initialize_rag_system (at startup and from
\* the reinitialize endpoint) and the chat, health and stats endpoints
Callers == {"initialize_rag_system", "chat_endpoint", "health_check", "get_system_stats"}

\* a process that has imported rag_chain.py: the global is unset
InitRag ==
    /\ site = <<>>
    /\ MAX_PAGES_TO_SCRAPE = MaxBudget
    /\ pc = "serving"
    /\ Constructed
    /\ Outside

\* mutant of GlobalUnset: the accessor never finds an instance
GlobalUnset_Always == TRUE

\* if rag_chain is None
GlobalUnset == rag_chain = None

\* OccamsRAGChain(): a new instance (named by the call that constructs it),
\* or an exception from __init__
ConstructorOutcomes == {"ok"} \cup (IF faults < MaxFaults THEN {"raise"} ELSE {})

\* the log entry of one get_rag_chain call: whether it constructed an
\* instance, and the instance it returned (None when it raised)
RagCall(caller, constructed, ret) ==
    [caller |-> caller, constructed |-> constructed, ret |-> ret]

\* get_rag_chain() called by `caller`; o is the outcome of OccamsRAGChain()
\* when the global is unset
get_rag_chain(caller, o) ==
    IF GlobalUnset
    THEN IF o = "ok"
         THEN /\ rag_chain' = Len(rag_log) + 1
              /\ rag_log' = Append(rag_log, RagCall(caller, TRUE, Len(rag_log) + 1))
         ELSE /\ rag_chain' = rag_chain
              /\ rag_log' = Append(rag_log, RagCall(caller, FALSE, None))
    ELSE /\ rag_chain' = rag_chain
         /\ rag_log' = Append(rag_log, RagCall(caller, FALSE, rag_chain))

\* get_rag_chain(), called by one of its callers; the callers run on the
\* event loop, one call at a time
GetRagChain ==
    /\ pc = "serving"
    /\ Len(rag_log) < MaxCalls
    /\ \E caller \in Callers :
          IF GlobalUnset
          THEN \E o \in ConstructorOutcomes :
                  /\ get_rag_chain(caller, o)
                  /\ faults' = faults + (IF o = "ok" THEN 0 ELSE 1)
          ELSE /\ get_rag_chain(caller, "ok")
               /\ faults' = faults
    /\ UNCHANGED <<site, MAX_PAGES_TO_SCRAPE, pc, result, raise_cause, scraped_urls,
                   scraped_data, shown, nav_links, nav_i, cur_section, subsection_links,
                   sub_i, harvest_i, all_internal_links, sweep_list, sweep_rest, saved,
                   fetches, call>>

NextRag == GetRagChain

SpecRag == InitRag /\ [][NextRag]_vars

\* the calls that constructed an instance, and the calls that returned one
Constructions == {i \in 1..Len(rag_log) : rag_log[i].constructed}
ReturningCalls == {i \in 1..Len(rag_log) : rag_log[i].ret # None}

\* C20: over any sequence of get_rag_chain calls starting from an unset
\* global, at most one OccamsRAGChain instance is constructed, and every call
\* that returns returns that instance: the one the first returning call
\* constructed, which is the one the global holds.
C20_Singleton ==
    /\ Cardinality(Constructions) <= 1
    /\ \A i, j \in ReturningCalls : rag_log[i].ret = rag_log[j].ret
    /\ \A i \in ReturningCalls :
          /\ rag_log[i].ret = rag_chain
          /\ \E k \in Constructions : k <= i /\ rag_log[i].ret = k

\* C20 witness: the first call constructed the instance, and two later calls
\* from other callers returned it.
C20_Witness ==
    /\ Len(rag_log) >= 3
    /\ rag_log[1].constructed
    /\ rag_log[2].caller # rag_log[1].caller /\ rag_log[2].ret = rag_log[1].ret
    /\ rag_log[3].caller # rag_log[2].caller /\ rag_log[3].ret = rag_log[1].ret

(***************************************************************************)
(* rag_chain.py and api/chat.py: one call of an operation of the chain on  *)
(* inputs drawn from bounded sets.  A score is in hundredths (80 is 0.8).  *)
(***************************************************************************)
\* the largest number of results a similarity search returns
MaxResults == 2

\* config.SIMILARITY_THRESHOLD = 0.2
SIMILARITY_THRESHOLD == 20

\* the results embedding_manager.similarity_search can return: url and score
\* (content and title are carried along unchanged and are not modelled)
SearchResults == [url : {"test1.com", "test2.com"}, score : {10, 20, 50, 80}]

\* the outcomes of embedding_manager.similarity_search: a list of results in
\* search order, or an exception
Searches ==
    {[kind |-> "ok", results |-> r] :
        r \in UNION {[1..n -> SearchResults] : n \in 0..MaxResults}}
        \cup {[kind |-> "raise"]}

\* OccamsRAGChain.retrieve_relevant_documents(query)
retrieve_relevant_documents(search) ==
    LET AtOrAbove(doc) == doc.score >= SIMILARITY_THRESHOLD
    IN  IF search.kind = "raise" THEN <<>> ELSE SelectSeq(search.results, AtOrAbove)

\* OccamsRAGChain.generate_response(query, context): the completion's text,
\* or the apology when the Groq call raises
generate_response(gen) ==
    IF gen = "raise"
    THEN "I apologize, but I'm having trouble generating a response right now. Please try again."
    ELSE "Occam's Advisory is a consulting firm."

\* the sources entry answer_question builds for a retrieved document
SourceOf(doc) == [url |-> doc.url, score |-> doc.score]

\* mutant of answer_question: the sources are built from all search results
answer_question_AllResults(search, gen) ==
    [answer |-> generate_response(gen),
     sources |-> IF search.kind = "raise" THEN <<>>
                 ELSE [i \in 1..Len(search.results) |-> SourceOf(search.results[i])],
     context_used |-> Len(retrieve_relevant_documents(search)) > 0]

\* OccamsRAGChain.answer_question(question): retrieval and generation catch
\* their own exceptions, so the outer except clause is not reached
answer_question(search, gen) ==
    [answer |-> generate_response(gen),
     sources |-> [i \in 1..Len(retrieve_relevant_documents(search)) |->
                     SourceOf(retrieve_relevant_documents(search)[i])],
     context_used |-> Len(retrieve_relevant_documents(search)) > 0]

\* EmbeddingManager.get_collection_stats(): the statistics, or {} when
\* self.collection.count() raises
get_collection_stats(count) ==
    IF count = "raise" THEN <<>> ELSE [total_documents |-> 3]

\* OccamsRAGChain.health_check(): manager is "real" (get_collection_stats as
\* above) or "stats_raise" (a manager whose get_collection_stats raises)
health_check(manager, count, search, gen) ==
    IF manager = "stats_raise"
    THEN [status |-> "unhealthy", error |-> "DB Error"]
    ELSE [status |-> "healthy",
          vector_db_stats |-> get_collection_stats(count),
          test_query_successful |-> answer_question(search, gen).answer # ""]

\* detail of the HTTPException of chat_endpoint:
\* "An error occurred while processing your question. Please try again."
ChatErrorDetail ==
    <<"A","n"," ","e","r","r","o","r"," ","o","c","c","u","r","r","e","d"," ","w","h","i","l","e"," ","p","r","o","c","e","s","s","i","n","g"," ","y","o","u","r"," ","q","u","e","s","t","i","o","n","."," ","P","l","e","a","s","e"," ","t","r","y"," ","a","g","a","i","n",".">>

\* mutant of chat_endpoint: the response carries the default conversation_id
chat_endpoint_NoEcho(request, fault, search, gen) ==
    IF fault # "none"
    THEN [status_code |-> 500, detail |-> ChatErrorDetail]
    ELSE [status_code |-> 200,
          answer |-> answer_question(search, gen).answer,
          sources |-> answer_question(search, gen).sources,
          context_used |-> answer_question(search, gen).context_used,
          conversation_id |-> ""]

\* chat_endpoint(request): fault says where an exception is raised: in
\* get_rag_chain, in answer_question, or nowhere
chat_endpoint(request, fault, search, gen) ==
    IF fault # "none"
    THEN [status_code |-> 500, detail |-> ChatErrorDetail]
    ELSE [status_code |-> 200,
          answer |-> answer_question(search, gen).answer,
          sources |-> answer_question(search, gen).sources,
          context_used |-> answer_question(search, gen).context_used,
          conversation_id |-> request.conversation_id]

\* the requests, and the places an exception can come from
ChatRequests == [message : {"Test question"}, conversation_id : {"", "test_conv"}]
ChatFaults == {"none", "get_rag_chain", "answer_question"}

\* the calls a behaviour can start with
ChainCalls ==
    {[fn |-> "retrieve", arg |-> [search |-> s]] : s \in Searches}
        \cup {[fn |-> "answer_question", arg |-> [search |-> s, gen |-> g]] :
                 s \in Searches, g \in {"ok", "raise"}}
        \cup {[fn |-> "health_check",
               arg |-> [manager |-> m[1], count |-> m[2], search |-> s, gen |-> g]] :
                 m \in {<<"real", "ok">>, <<"real", "raise">>, <<"stats_raise", "ok">>},
                 s \in Searches, g \in {"ok", "raise"}}
        \cup {[fn |-> "chat_endpoint",
               arg |-> [request |-> r, fault |-> f, search |-> s, gen |-> g]] :
                 r \in ChatRequests, f \in ChatFaults, s \in Searches, g \in {"ok", "raise"}}

\* a constructed chain on which one operation is about to be called; the
\* module global is unset, or holds the instance initialize_rag_system made
\* (and then get_rag_chain does not raise)
InitChain ==
    /\ site = <<>>
    /\ MAX_PAGES_TO_SCRAPE = MaxBudget
    /\ pc = "helper"
    /\ Constructed
    /\ call \in ChainCalls
    /\ \/ rag_chain = None /\ rag_log = <<>>
       \/ /\ rag_chain = 1
          /\ rag_log = <<RagCall("initialize_rag_system", TRUE, 1)>>
          /\ ~(call.fn = "chat_endpoint" /\ call.arg.fault = "get_rag_chain")

CallRetrieve == Pending("retrieve") /\ Return(retrieve_relevant_documents(call.arg.search))

CallAnswerQuestion ==
    Pending("answer_question") /\ Return(answer_question(call.arg.search, call.arg.gen))

CallHealthCheck ==
    Pending("health_check") /\
        Return(health_check(call.arg.manager, call.arg.count, call.arg.search, call.arg.gen))

\* chat_endpoint(request): get_rag_chain() sets the module global when it
\* is unset and the constructor does not raise
CallChatEndpoint ==
    /\ Pending("chat_endpoint")
    /\ call' = [fn |-> call.fn, arg |-> call.arg,
                ret |-> chat_endpoint(call.arg.request, call.arg.fault,
                                      call.arg.search, call.arg.gen)]
    /\ get_rag_chain("chat_endpoint",
                     IF call.arg.fault = "get_rag_chain" THEN "raise" ELSE "ok")
    /\ UNCHANGED crawl_vars

NextChain ==
    \/ CallRetrieve
    \/ CallAnswerQuestion
    \/ CallHealthCheck
    \/ CallChatEndpoint

SpecChain == InitChain /\ [][NextChain]_vars


\* the results kept by the filter of retrieve_relevant_documents: those of
\* the search whose score is at or above the threshold, in search order
KeptResults(search) ==
    LET Kept(r) == r.score >= SIMILARITY_THRESHOLD
    IN  IF search.kind = "raise" THEN <<>> ELSE SelectSeq(search.results, Kept)

\* C21 (as claimed): retrieve_relevant_documents returns, in search order,
\* only the results whose score is at or above the threshold, and of two
\* results scored 0.8 and 0.5 only the one scored 0.8 is returned.
C21_RetrieveAsClaimed ==
    Returned("retrieve") =>
        /\ call.ret = KeptResults(call.arg.search)
        /\ (/\ call.arg.search.kind = "ok"
            /\ Len(call.arg.search.results) = 2
            /\ call.arg.search.results[1].score = 80
            /\ call.arg.search.results[2].score = 50)
               => (Len(call.ret) = 1 /\ call.ret[1].score = 80)

\* C22: answer_question returns a result with answer, sources and
\* context_used and does not raise; sources has one entry per retrieved
\* document, in retrieval order, with that document's url; context_used is
\* true exactly when at least one document was retrieved; the same shape is
\* returned when the search or the generation raised inside.
C22_AnswerQuestionShape ==
    Returned("answer_question") =>
        /\ DOMAIN call.ret = {"answer", "sources", "context_used"}
        /\ call.ret.answer # ""
        /\ Len(call.ret.sources) = Len(KeptResults(call.arg.search))
        /\ \A i \in 1..Len(call.ret.sources) :
               call.ret.sources[i].url = KeptResults(call.arg.search)[i].url
        /\ call.ret.context_used = (Len(KeptResults(call.arg.search)) >= 1)

\* C22 witness: a search returned two results of which one was below the
\* threshold, and answer_question returned one source
C22_Witness ==
    /\ Returned("answer_question")
    /\ call.arg.search.kind = "ok"
    /\ Len(call.arg.search.results) = 2
    /\ Len(call.ret.sources) = 1
    /\ call.ret.context_used

\* the vector database could not be queried for its statistics
StatsUnavailable == call.arg.manager = "stats_raise" \/ call.arg.count = "raise"

\* C23 (as claimed): health_check reports "unhealthy" with an error whenever
\* the vector database cannot be queried for its statistics, and "healthy"
\* only when the statistics were obtained, with the real
\* get_collection_stats too.
C23_HealthAsClaimed ==
    Returned("health_check") =>
        /\ StatsUnavailable =>
               (call.ret.status = "unhealthy" /\ "error" \in DOMAIN call.ret)
        /\ call.ret.status = "healthy" => ~StatsUnavailable

\* C24: chat_endpoint answers an exception raised by get_rag_chain or by
\* answer_question with status 500 and a detail containing "error"; with no
\* exception it answers 200 with the chain's answer, sources and
\* context_used and the request's conversation_id unchanged.
C24_ChatEndpoint ==
    Returned("chat_endpoint") =>
        /\ call.arg.fault # "none" =>
               /\ call.ret.status_code = 500
               /\ Contains(Lower(call.ret.detail), <<"e","r","r","o","r">>)
        /\ call.arg.fault = "none" =>
               /\ call.ret.status_code = 200
               /\ call.ret.answer = answer_question(call.arg.search, call.arg.gen).answer
               /\ call.ret.sources = answer_question(call.arg.search, call.arg.gen).sources
               /\ call.ret.context_used =
                      answer_question(call.arg.search, call.arg.gen).context_used
               /\ call.ret.conversation_id = call.arg.request.conversation_id

\* C24 witness: answer_question raised and the endpoint answered 500
C24_Witness ==
    /\ Returned("chat_endpoint")
    /\ call.arg.fault = "answer_question"
    /\ call.arg.request.conversation_id = "test_conv"
    /\ call.ret.status_code = 500


\* the place of a goto's phase in scrape_website: navigation discovery, home
\* page scrape, sections with their subsections, sweep (its harvesting
\* revisits and its fetches)
PhaseRank(phase) ==
    CASE phase = "discover" -> 1
      [] phase = "home" -> 2
      [] phase \in {"section", "subsection"} -> 3
      [] phase \in {"harvest", "sweep"} -> 4

\* C25: the phases run in the order navigation discovery, home page scrape,
\* sections with their subsections, sweep, persistence: the gotos are issued
\* in phase order, a section or subsection fetch comes after the home scrape
\* attempt, a goto of the sweep comes only when the loop over the discovered
\* sections has ended, and once the data is persisted no goto is issued.
C25_PhaseOrder ==
    /\ [](/\ \A i, j \in 1..Len(fetches) :
                i < j => PhaseRank(fetches[i].phase) <= PhaseRank(fetches[j].phase)
          /\ \A i \in 1..Len(fetches) :
                PhaseRank(fetches[i].phase) = 3 =>
                    \E j \in 1..(i - 1) : fetches[j].phase = "home"
          /\ (\E i \in 1..Len(fetches) : PhaseRank(fetches[i].phase) = 4) =>
                nav_i > Len(nav_links)
          /\ saved # <<>> => pc = "done")
    /\ [][saved # <<>> => fetches' = fetches]_vars

\* C25 witness: a session that fetched a section and a sweep page and then
\* persisted
C25_Witness ==
    /\ saved # <<>>
    /\ \E i \in 1..Len(fetches) : fetches[i].phase = "section"
    /\ \E i \in 1..Len(fetches) : fetches[i].phase = "sweep"


(***************************************************************************)
(* The sweep, on the sites of the model and on the long site, where more   *)
(* than 10 links remain for it.                                            *)
(***************************************************************************)
\* the gotos of the sweep's loop over the remaining links
SweepFetches == {i \in 1..Len(fetches) : fetches[i].phase = "sweep"}

\* the visited set when the sweep computed its candidates: no record is added
\* between the end of the section loop and the sweep's first fetch
VisitedAtSweep ==
    {fetches[i].url : i \in {k \in 1..Len(fetches) :
        fetches[k].recorded /\ fetches[k].phase \in {"home", "section", "subsection"}}}

\* the valid URLs among those the anchors of the sites resolve to
ValidLinkedUrls == {u \in LinkedUrls : _is_valid_url(u)}

\* C26: the sweep fetches at most 10 URLs: the list it iterates has at most
\* 10 entries, all different, and each sweep fetch is of another entry; each
\* URL fetched is valid, was not in the visited set when the candidates were
\* computed, and is fetched with the record count below MAX_PAGES_TO_SCRAPE;
\* so no sweep fetch adds a record once the ceiling is reached.
C26_SweepBounded ==
    /\ Cardinality(SweepFetches) <= 10
    /\ Len(sweep_list) + Cardinality(sweep_rest) <= 10
    /\ Cardinality(SweepFetches) <= Len(sweep_list)
    /\ \A i, j \in SweepFetches : i # j => fetches[i].url # fetches[j].url
    /\ \A i \in SweepFetches :
          /\ fetches[i].url \in Range(sweep_list)
          /\ fetches[i].url \in ValidLinkedUrls
          /\ fetches[i].url \notin VisitedAtSweep
          /\ fetches[i].n_before < MAX_PAGES_TO_SCRAPE
          /\ fetches[i].recorded => fetches[i].n_before + 1 <= MAX_PAGES_TO_SCRAPE

\* C26 witness: a session on the long site, where the sweep was left with
\* more than 10 candidates, took 10 of them, and has fetched and recorded one
C26_Witness ==
    /\ Cardinality(all_internal_links \ VisitedAtSweep) > 10
    /\ Len(sweep_list) + Cardinality(sweep_rest) = 10
    /\ \E i \in SweepFetches : fetches[i].recorded

\* C27 (as claimed): subsection links are harvested from the section's own
\* page: when subsection discovery has run for a section, the page shown is
\* the successfully loaded page of that section, and no subsection fetch
\* belongs to a section whose failed fetch left another page shown.
C27_SubsectionsFromOwnPage ==
    /\ (pc = "subsections" /\ sub_i = 1) =>
          (shown = cur_section /\ fetches[Len(fetches)].kind = "ok")
    /\ \A i \in SubsectionFetches : fetches[SectionOf(i)].kind # "exc_stay"


\* the links the navigation-container selectors contribute on the anchors of
\* the call, every selector's query succeeding
ContainerLinks ==
    Flatten([k \in 1..nav_selectors |-> SelectorLinks(ResolveAll(call.arg.anchors), k)])

\* C28 (as claimed): in navigation discovery a failing link source only
\* empties its own contribution: when the dropdown-trigger query or the query
\* of all anchors fails, the links the navigation-container selectors
\* collect are still returned.
C28_NavSourcesIsolated ==
    (Returned("extract_navigation_links") /\ call.arg.fault \in {"dropdown", "all_links"}) =>
        Range(ContainerLinks) \subseteq Range(call.ret)


\* the elements of the page with the given tag, in document order
WithTag(view, tag) ==
    LET HasTag(e) == e.tag = tag
    IN  SelectSeq(view.dom, HasTag)

\* C29 (as claimed): the title is resolved in the order first-level heading,
\* document title, empty string: on a page with both an h1 and a <title> the
\* record's title is the h1 text, the <title> text is used only when there is
\* no h1, and a failure while reading them leaves a record with a title.
C29_TitleOrder ==
    Returned("extract_page_data") =>
        /\ "title" \in DOMAIN call.ret
        /\ call.arg.title_fault = "none" =>
              call.ret.title =
                  IF WithTag(call.arg, "h1") # <<>>
                  THEN Strip(WithTag(call.arg, "h1")[1].text)
                  ELSE IF WithTag(call.arg, "title") # <<>>
                  THEN Strip(WithTag(call.arg, "title")[1].text)
                  ELSE IF call.arg.soup_title.kind = "tag"
                  THEN Strip(call.arg.soup_title.string)
                  ELSE <<>>

\* the content selectors of the page whose rendered text is non-empty
NonEmptyRegions(view) ==
    {k \in 1..content_selectors :
        view.regions[k].kind = "text" /\ Strip(view.regions[k].text) # <<>>}

\* the text the three levels of body-content resolution select
ResolvedContent(view) ==
    IF NonEmptyRegions(view) # {}
    THEN view.regions[CHOOSE k \in NonEmptyRegions(view) :
                          \A j \in NonEmptyRegions(view) : k <= j].text
    ELSE IF view.body.kind = "text" /\ Strip(view.body.text) # <<>>
    THEN view.body.text
    ELSE view.markup_text

\* C30 (as claimed): the content is the cleaned text of the first content
\* selector, in priority order, whose rendered text is non-empty; if there is
\* none, of the rendered body; and if the body exists but its rendered text
\* is empty too, of the markup's plain text: the content is empty only when
\* all three levels are.
C30_ContentFallback ==
    (Returned("extract_page_data") /\ "content" \in DOMAIN call.ret) =>
        call.ret.content = _clean_text(ResolvedContent(call.arg))

====
